---- MODULE Spec2Model ----
(***************************************************************************)
(* Model of the dredge event-hunting subsystem: the result envelope, the   *)
(* three backoff executors and the three pagination drivers                *)
(* (CloudTrail LookupEvents, GitHub audit log, Cloud Logging).             *)
(*                                                                         *)
(* One hunt invocation is a state machine.  The remote provider is the     *)
(* environment: every remote call is answered by a nondeterministically    *)
(* chosen response (a page, a throttling failure, a fatal failure).        *)
(* Durations are integers (one unit = the granularity of base_delay).      *)
(***************************************************************************)
EXTENDS Integers, Sequences, FiniteSets, TLC

VARIABLES
    hunt,   \* the running hunt call: its arguments, locals and result
    env,    \* the world outside: the pages served so far
    obs     \* history of the call (what was requested, slept and fetched)

vars == <<hunt, env, obs>>

(***************************************************************************)
(* Bounds of the model.                                                    *)
(***************************************************************************)
MaxEvents == 2      \* max_events / max_entries range over -1..MaxEvents
MaxRetries == 2     \* throttle_max_retries ranges over -1..MaxRetries
MaxPageLen == 2     \* a page returned by a provider holds 0..MaxPageLen records
MaxPages == 2       \* a provider serves at most MaxPages pages to one hunt
MaxErrors == 2      \* the caller adds errors while fewer than MaxErrors are recorded

(***************************************************************************)
(* Program constants.                                                      *)
(***************************************************************************)
AwsMaxResults == 50
GitHubMaxPerPage == 100
GcpMaxPageSize == 1000
DaySeconds == 86400

_THROTTLE_ERROR_CODES ==
    {"Throttling", "ThrottlingException", "RequestLimitExceeded",
     "TooManyRequestsException"}

_RATE_LIMIT_STATUS == {403, 429}

\* Python's None.
None == "None"

Min(a, b) == IF a < b THEN a ELSE b
Max(a, b) == IF a > b THEN a ELSE b

\* Python truthiness of an optional string.
Truthy(s) == s # None /\ s # ""

\* dict.get(key) / dict.get(key, default); a mapping is a function whose
\* domain is its set of keys.
Get(d, key) == IF key \in DOMAIN d THEN d[key] ELSE None
GetOr(d, key, default) == IF key \in DOMAIN d THEN d[key] ELSE default

\* datetime.isoformat() of the hunt's own time bounds (integers, seconds):
\* a text rendering, distinct from the datetime itself.
isoformat(t) == <<"iso", t>>

\* Take(s, n): the first n elements of s.
Take(s, n) == SubSeq(s, 1, Min(Max(n, 0), Len(s)))

(***************************************************************************)
(* Result envelope (OperationResult).                                      *)
(***************************************************************************)
EmptyDetails == [k \in {} |-> None]

OperationResult(operation, target, success) ==
    [operation |-> operation, target |-> target, success |-> success,
     details |-> EmptyDetails, errors |-> <<>>]

\* details[key] = value
SetItem(d, key, value) ==
    [k \in (DOMAIN d) \cup {key} |-> IF k = key THEN value ELSE d[k]]

add_error_keeps_success(r, message) ==
    [r EXCEPT !.errors = Append(@, message)]

add_error_flips_success(r, message) ==
    [r EXCEPT !.errors = Append(@, message), !.success = ~@]

add_error_skips_duplicate(r, message) ==
    IF \E i \in 1..Len(r.errors) : r.errors[i] = message
    THEN [r EXCEPT !.success = FALSE]
    ELSE [r EXCEPT !.errors = Append(@, message), !.success = FALSE]

add_error(r, message) ==
    [r EXCEPT !.errors = Append(@, message), !.success = FALSE]

\* The OperationResult the cloud-logging hunt imports from its own models
\* module.
gcp_add_error(r, message) ==
    [r EXCEPT !.errors = Append(@, message), !.success = FALSE]

(***************************************************************************)
(* Cloud-infra provider (CloudTrail LookupEvents): raw records.            *)
(* A raw record is a mapping; EventTime is a datetime ("dt...") or, for a  *)
(* record of unexpected shape, a plain text; CloudTrailEvent is the nested *)
(* JSON text.                                                              *)
(***************************************************************************)
Datetimes == {"dt1", "dt2"}

\* datetime.isoformat() of an event time.
EventIso(d) ==
    CASE d = "dt1" -> "2025-01-01T10:00:00+00:00"
      [] d = "dt2" -> "2025-01-02T11:30:00+00:00"

JsonWithIp1 == "{sourceIPAddress: 1.1.1.1}"
JsonWithIp2 == "{sourceIPAddress: 2.2.2.2}"
JsonNoIp == "{eventVersion: 1.08}"
JsonList == "[1, 2]"
JsonBroken == "{not json"

\* json.loads: the parsed value, or a failure.
json_loads(text) ==
    CASE text = JsonWithIp1 -> [ok |-> TRUE, mapping |-> TRUE,
                                value |-> [sourceIPAddress |-> "1.1.1.1"]]
      [] text = JsonWithIp2 -> [ok |-> TRUE, mapping |-> TRUE,
                                value |-> [sourceIPAddress |-> "2.2.2.2"]]
      [] text = JsonNoIp -> [ok |-> TRUE, mapping |-> TRUE,
                             value |-> [eventVersion |-> "1.08"]]
      [] text = JsonList -> [ok |-> TRUE, mapping |-> FALSE,
                             value |-> EmptyDetails]
      [] OTHER -> [ok |-> FALSE, mapping |-> FALSE, value |-> EmptyDetails]

\* The source IP found in the nested payload (lines 223-232): None when the
\* payload is missing or empty, does not parse, or is not a mapping (the
\* failure is swallowed by the except clause).
NestedSourceIp(event) ==
    LET raw == Get(event, "CloudTrailEvent")
        ct == json_loads(raw)
    IN  IF ~Truthy(raw) THEN None
        ELSE IF ct.ok /\ ct.mapping THEN Get(ct.value, "sourceIPAddress")
        ELSE None

\* event["EventTime"].isoformat() raises when EventTime is truthy and not a
\* datetime.
AwsNormalizeRaises(event) ==
    Truthy(Get(event, "EventTime")) /\ Get(event, "EventTime") \notin Datetimes

_normalize_event_nested_first(event) ==
    [event_id |-> Get(event, "EventId"),
     event_name |-> Get(event, "EventName"),
     event_time |-> IF Truthy(Get(event, "EventTime"))
                    THEN EventIso(event["EventTime"]) ELSE None,
     username |-> Get(event, "Username"),
     event_source |-> Get(event, "EventSource"),
     aws_region |-> Get(event, "AwsRegion"),
     read_only |-> Get(event, "ReadOnly"),
     access_key_id |-> Get(event, "AccessKeyId"),
     source_ip_address |-> IF NestedSourceIp(event) # None
                           THEN NestedSourceIp(event)
                           ELSE Get(event, "SourceIPAddress"),
     resources |-> GetOr(event, "Resources", <<>>),
     raw_cloudtrail_event |-> Get(event, "CloudTrailEvent")]

_normalize_event(event) ==
    [event_id |-> Get(event, "EventId"),
     event_name |-> Get(event, "EventName"),
     event_time |-> IF Truthy(Get(event, "EventTime"))
                    THEN EventIso(event["EventTime"]) ELSE None,
     username |-> Get(event, "Username"),
     event_source |-> Get(event, "EventSource"),
     aws_region |-> Get(event, "AwsRegion"),
     read_only |-> Get(event, "ReadOnly"),
     access_key_id |-> Get(event, "AccessKeyId"),
     source_ip_address |-> GetOr(event, "SourceIPAddress", NestedSourceIp(event)),
     resources |-> GetOr(event, "Resources", <<>>),
     raw_cloudtrail_event |-> Get(event, "CloudTrailEvent")]

_build_lookup_attributes_user_first(user_name, access_key_id, event_name) ==
    IF Truthy(user_name)
    THEN <<[AttributeKey |-> "Username", AttributeValue |-> user_name]>>
    ELSE IF Truthy(access_key_id)
    THEN <<[AttributeKey |-> "AccessKeyId", AttributeValue |-> access_key_id]>>
    ELSE IF Truthy(event_name)
    THEN <<[AttributeKey |-> "EventName", AttributeValue |-> event_name]>>
    ELSE <<>>

_build_lookup_attributes(user_name, access_key_id, event_name) ==
    IF Truthy(access_key_id)
    THEN <<[AttributeKey |-> "AccessKeyId", AttributeValue |-> access_key_id]>>
    ELSE IF Truthy(user_name)
    THEN <<[AttributeKey |-> "Username", AttributeValue |-> user_name]>>
    ELSE IF Truthy(event_name)
    THEN <<[AttributeKey |-> "EventName", AttributeValue |-> event_name]>>
    ELSE <<>>

_build_target_string(user_name, access_key_id, event_name, source_ip, start_time, end_time) ==
    (IF Truthy(user_name) THEN <<<<"user=", user_name>>>> ELSE <<>>)
    \o (IF Truthy(access_key_id)
        THEN <<<<"access_key_id=", access_key_id>>>> ELSE <<>>)
    \o (IF Truthy(event_name) THEN <<<<"event_name=", event_name>>>> ELSE <<>>)
    \o (IF Truthy(source_ip) THEN <<<<"source_ip=", source_ip>>>> ELSE <<>>)
    \o <<<<"time=", isoformat(start_time), isoformat(end_time)>>>>

AwsKeeps_ip_only(normalized, event_name, source_ip, lookup_attributes) ==
    Truthy(source_ip) => normalized.source_ip_address = source_ip

\* The client-side filters of the page loop (lines 144-150): TRUE when the
\* normalized event is kept.
AwsKeeps(normalized, event_name, source_ip, lookup_attributes) ==
    /\ (Truthy(event_name) /\ Len(lookup_attributes) > 0
          /\ lookup_attributes[1].AttributeKey # "EventName")
       => normalized.event_name = event_name
    /\ Truthy(source_ip) => normalized.source_ip_address = source_ip

\* The page loop of lookup_events (lines 138-152): the accumulator after the
\* records of one page, and whether normalizing a record raised.
RECURSIVE AwsPageLoop(_, _, _, _, _, _)
AwsPageLoop(raw_events, events, max_events, event_name, source_ip, lookup_attributes) ==
    IF raw_events = <<>> \/ Len(events) >= max_events
    THEN [events |-> events, raised |-> FALSE]
    ELSE IF AwsNormalizeRaises(Head(raw_events))
    THEN [events |-> events, raised |-> TRUE]
    ELSE LET normalized == _normalize_event(Head(raw_events))
             kept == IF AwsKeeps(normalized, event_name, source_ip,
                                 lookup_attributes)
                     THEN Append(events, normalized) ELSE events
         IN  AwsPageLoop(Tail(raw_events), kept, max_events, event_name,
                         source_ip, lookup_attributes)

(***************************************************************************)
(* Source-control provider (GitHub audit log): query phrase, normalizer.   *)
(***************************************************************************)
\* dt.date().isoformat(): the calendar day of a time given in seconds.
fmt(dt) == <<"date", dt \div DaySeconds>>

_build_phrase_created_first(actor, action, repo, source_ip, has_start, start_time, has_end, end_time) ==
    (IF has_start /\ has_end
     THEN <<<<"created:", fmt(start_time), "..", fmt(end_time)>>>>
     ELSE IF has_start THEN <<<<"created:>=", fmt(start_time)>>>>
     ELSE IF has_end THEN <<<<"created:<=", fmt(end_time)>>>>
     ELSE <<>>)
    \o (IF Truthy(actor) THEN <<<<"actor:", actor>>>> ELSE <<>>)
    \o (IF Truthy(action) THEN <<<<"action:", action>>>> ELSE <<>>)
    \o (IF Truthy(repo) THEN <<<<"repo:", repo>>>> ELSE <<>>)
    \o (IF Truthy(source_ip) THEN <<<<"actor_ip:", source_ip>>>> ELSE <<>>)

\* An optional time bound is passed as a flag (is it given) and its value.
_build_phrase(actor, action, repo, source_ip, has_start, start_time, has_end, end_time) ==
    (IF Truthy(actor) THEN <<<<"actor:", actor>>>> ELSE <<>>)
    \o (IF Truthy(action) THEN <<<<"action:", action>>>> ELSE <<>>)
    \o (IF Truthy(repo) THEN <<<<"repo:", repo>>>> ELSE <<>>)
    \o (IF Truthy(source_ip) THEN <<<<"actor_ip:", source_ip>>>> ELSE <<>>)
    \o (IF has_start /\ has_end
        THEN <<<<"created:", fmt(start_time), "..", fmt(end_time)>>>>
        ELSE IF has_start THEN <<<<"created:>=", fmt(start_time)>>>>
        ELSE IF has_end THEN <<<<"created:<=", fmt(end_time)>>>>
        ELSE <<>>)

_target_string(actor, action, repo, source_ip, has_start, start_time, has_end, end_time) ==
    LET bits ==
          (IF Truthy(actor) THEN <<<<"actor=", actor>>>> ELSE <<>>)
          \o (IF Truthy(action) THEN <<<<"action=", action>>>> ELSE <<>>)
          \o (IF Truthy(repo) THEN <<<<"repo=", repo>>>> ELSE <<>>)
          \o (IF Truthy(source_ip) THEN <<<<"source_ip=", source_ip>>>> ELSE <<>>)
          \o (IF has_start \/ has_end
              THEN <<<<"created=",
                       IF has_start THEN <<isoformat(start_time)>> ELSE <<>>,
                       "..",
                       IF has_end THEN <<isoformat(end_time)>> ELSE <<>>>>>>
              ELSE <<>>)
    IN  IF bits # <<>> THEN bits ELSE <<<<"github_audit_log">>>>

\* ev.get("@timestamp") or ev.get("created_at")
GitHubCreatedAt(ev) ==
    IF Truthy(Get(ev, "@timestamp")) THEN ev["@timestamp"]
    ELSE Get(ev, "created_at")

github_normalize_event(ev) ==
    [action |-> Get(ev, "action"),
     actor |-> Get(ev, "actor"),
     actor_ip |-> Get(ev, "actor_ip"),
     repository |-> Get(ev, "repo"),
     org |-> Get(ev, "org"),
     created_at |-> GitHubCreatedAt(ev),
     raw |-> ev]

GitHubPageLoop_no_cap(page_events, events, max_events) ==
    events \o [i \in 1..Len(page_events) |->
                  github_normalize_event(page_events[i])]

RECURSIVE GitHubPageLoop_newest_first(_, _, _)
GitHubPageLoop_newest_first(page_events, events, max_events) ==
    IF page_events = <<>> \/ Len(events) >= max_events THEN events
    ELSE GitHubPageLoop_newest_first(Tail(page_events),
             <<github_normalize_event(Head(page_events))>> \o events,
             max_events)

\* The page loop of search_audit_log (lines 114-117).
RECURSIVE GitHubPageLoop(_, _, _)
GitHubPageLoop(page_events, events, max_events) ==
    IF page_events = <<>> \/ Len(events) >= max_events THEN events
    ELSE GitHubPageLoop(Tail(page_events),
                        Append(events, github_normalize_event(Head(page_events))),
                        max_events)

\* int(reset_header): the integer, or a ValueError.
ResetSoon == "103"
ResetPast == "90"
ResetGarbled == "soon"

int_parse(text) ==
    CASE text = ResetSoon -> [ok |-> TRUE, value |-> 103]
      [] text = ResetPast -> [ok |-> TRUE, value |-> 90]
      [] OTHER -> [ok |-> FALSE, value |-> 0]

GitHubWait_no_floor(headers, delay, now) ==
    LET reset_header == Get(headers, "X-RateLimit-Reset")
        remaining_header == Get(headers, "X-RateLimit-Remaining")
    IN  IF remaining_header = "0" /\ Truthy(reset_header)
        THEN IF int_parse(reset_header).ok
             THEN int_parse(reset_header).value - now
             ELSE delay
        ELSE delay

\* The sleep chosen for a rate-limited response (lines 242-257).
GitHubWait(headers, delay, now) ==
    LET reset_header == Get(headers, "X-RateLimit-Reset")
        remaining_header == Get(headers, "X-RateLimit-Remaining")
    IN  IF remaining_header = "0" /\ Truthy(reset_header)
        THEN IF int_parse(reset_header).ok
             THEN Max(int_parse(reset_header).value - now, delay)
             ELSE delay
        ELSE delay

\* str() of the error raised for a non-2xx response (lines 263-268).
GitHubApiError(status_code) ==
    CASE status_code = 403 -> "GitHub API error 403: rate limited"
      [] status_code = 429 -> "GitHub API error 429: rate limited"
      [] status_code = 404 -> "GitHub API error 404: Not Found"
      [] OTHER -> "GitHub API error 500: Server Error"

(***************************************************************************)
(* Cloud logging provider: filter expression, normalizer.                  *)
(***************************************************************************)
\* dt.astimezone(timezone.utc).isoformat()
ts(dt) == <<"rfc3339", dt>>

_build_filter_day_precision(principal_email, method_name, resource_name, source_ip, log_id, has_start, start_time, has_end, end_time) ==
    <<<<"log_id", log_id>>>>
    \o (IF Truthy(principal_email)
        THEN <<<<"protoPayload.authenticationInfo.principalEmail=",
                 principal_email>>>> ELSE <<>>)
    \o (IF Truthy(method_name)
        THEN <<<<"protoPayload.methodName=", method_name>>>> ELSE <<>>)
    \o (IF Truthy(resource_name)
        THEN <<<<"protoPayload.resourceName=", resource_name>>>> ELSE <<>>)
    \o (IF Truthy(source_ip)
        THEN <<<<"protoPayload.requestMetadata.callerIp=", source_ip>>>>
        ELSE <<>>)
    \o (IF has_start /\ has_end
        THEN <<<<"timestamp >=", fmt(start_time), "AND timestamp <=",
                 fmt(end_time)>>>>
        ELSE IF has_start THEN <<<<"timestamp >=", fmt(start_time)>>>>
        ELSE IF has_end THEN <<<<"timestamp <=", fmt(end_time)>>>>
        ELSE <<>>)

_build_filter(principal_email, method_name, resource_name, source_ip, log_id, has_start, start_time, has_end, end_time) ==
    <<<<"log_id", log_id>>>>
    \o (IF Truthy(principal_email)
        THEN <<<<"protoPayload.authenticationInfo.principalEmail=",
                 principal_email>>>> ELSE <<>>)
    \o (IF Truthy(method_name)
        THEN <<<<"protoPayload.methodName=", method_name>>>> ELSE <<>>)
    \o (IF Truthy(resource_name)
        THEN <<<<"protoPayload.resourceName=", resource_name>>>> ELSE <<>>)
    \o (IF Truthy(source_ip)
        THEN <<<<"protoPayload.requestMetadata.callerIp=", source_ip>>>>
        ELSE <<>>)
    \o (IF has_start /\ has_end
        THEN <<<<"timestamp >=", ts(start_time), "AND timestamp <=",
                 ts(end_time)>>>>
        ELSE IF has_start THEN <<<<"timestamp >=", ts(start_time)>>>>
        ELSE IF has_end THEN <<<<"timestamp <=", ts(end_time)>>>>
        ELSE <<>>)

gcp_target_string(principal_email, method_name, resource_name, source_ip, log_id, has_start, start_time, has_end, end_time) ==
    <<<<"log_id=", log_id>>>>
    \o (IF Truthy(principal_email)
        THEN <<<<"principal=", principal_email>>>> ELSE <<>>)
    \o (IF Truthy(method_name) THEN <<<<"method=", method_name>>>> ELSE <<>>)
    \o (IF Truthy(resource_name)
        THEN <<<<"resource=", resource_name>>>> ELSE <<>>)
    \o (IF Truthy(source_ip) THEN <<<<"source_ip=", source_ip>>>> ELSE <<>>)
    \o (IF has_start \/ has_end
        THEN <<<<"timestamp=",
                 IF has_start THEN <<isoformat(start_time)>> ELSE <<>>,
                 "..",
                 IF has_end THEN <<isoformat(end_time)>> ELSE <<>>>>>>
        ELSE <<>>)

\* resource and labels of the result are <<>> for None and <<mapping>> for a
\* copied mapping.
_normalize_entry(entry) ==
    [timestamp |-> IF Truthy(entry.timestamp)
                   THEN EventIso(entry.timestamp) ELSE None,
     log_name |-> entry.log_name,
     severity |-> entry.severity,
     trace |-> entry.trace,
     span_id |-> entry.span_id,
     insert_id |-> entry.insert_id,
     resource |-> IF entry.resource # EmptyDetails THEN <<entry.resource>>
                  ELSE <<>>,
     labels |-> IF entry.labels # EmptyDetails THEN <<entry.labels>>
                ELSE <<>>,
     payload |-> entry.payload]

\* The page loop of search_logs (lines 115-118).
RECURSIVE GcpPageLoop(_, _, _)
GcpPageLoop(page, entries, max_entries) ==
    IF page = <<>> \/ Len(entries) >= max_entries THEN entries
    ELSE GcpPageLoop(Tail(page), Append(entries, _normalize_entry(Head(page))),
                     max_entries)

\* str() of the errors of the cloud logging client.
GcpRetriesExhausted(exc) ==
    CASE exc = "ResourceExhausted" ->
           "GCP Logging rate limit exceeded and retries exhausted: 429 ResourceExhausted"
      [] OTHER ->
           "GCP Logging rate limit exceeded and retries exhausted: 429 TooManyRequests"

(***************************************************************************)
(* Inputs of a hunt and responses of the providers.                        *)
(***************************************************************************)
Providers == {"aws", "github", "gcp"}

\* The reading of time.time(); the reset times a provider announces are
\* given relative to it.
Clock0 == 100

Oversize(p) ==
    CASE p = "aws" -> AwsMaxResults + 1
      [] p = "github" -> GitHubMaxPerPage + 1
      [] OTHER -> GcpMaxPageSize + 1

PageSizes(p) == {-1, 0, MaxPageLen, Oversize(p)}

NoFilters ==
    [user_name |-> None, access_key_id |-> None, event_name |-> None,
     source_ip |-> None, actor |-> None, action |-> None, repo |-> None,
     include |-> None, principal_email |-> None, method_name |-> None,
     resource_name |-> None, log_id |-> None]

FilterSets(p) ==
    CASE p = "aws" ->
           {NoFilters,
            [NoFilters EXCEPT !.event_name = "ConsoleLogin"],
            [NoFilters EXCEPT !.user_name = "alice",
                              !.event_name = "ConsoleLogin",
                              !.source_ip = "1.1.1.1"]}
      [] p = "github" -> {NoFilters, [NoFilters EXCEPT !.actor = "alice",
                                                       !.include = "all"]}
      [] OTHER -> {NoFilters, [NoFilters EXCEPT !.method_name = "SetIamPolicy",
                                                !.log_id = "my-log"]}

\* Further filter sets of the cloud-infra hunt: several identity filters at
\* once, an empty (not supplied) access key, a source IP alone.
MoreFilterSets(p) ==
    IF p = "aws"
    THEN {[NoFilters EXCEPT !.access_key_id = "AKIA1", !.user_name = "alice",
                            !.event_name = "ConsoleLogin"],
          [NoFilters EXCEPT !.access_key_id = "", !.user_name = "alice"],
          [NoFilters EXCEPT !.access_key_id = "AKIA1",
                            !.event_name = "GetObject"],
          [NoFilters EXCEPT !.source_ip = "2.2.2.2"]}
    ELSE {}

BaseDelays == {1, 2}

Args(m, ps, r, d, f) ==
    [max_events |-> m, page_size |-> ps, throttle_max_retries |-> r,
     throttle_base_delay |-> d, filters |-> f,
     has_start |-> FALSE, start_time |-> 0, has_end |-> FALSE, end_time |-> 0]

\* The keyword arguments of the hunt calls explored without time bounds
\* (start_time = end_time = None).  Four families: every cap with every
\* filter set, every cap with every page size (both with one retry), every
\* retry budget with every base delay, and the further filter sets.
HuntArgs(p) ==
    {Args(m, MaxPageLen, 1, 1, f) : m \in -1..MaxEvents, f \in FilterSets(p)}
    \cup {Args(m, ps, 1, 1, NoFilters) : m \in -1..MaxEvents, ps \in PageSizes(p)}
    \cup {Args(MaxEvents, MaxPageLen, r, d, NoFilters) :
             r \in -1..MaxRetries, d \in BaseDelays}
    \cup {Args(MaxEvents, MaxPageLen, 1, 1, f) : f \in MoreFilterSets(p)}

\* Time bounds a caller supplies, in seconds: none, a start alone, an end
\* alone, a range within one calendar day, a range over two days.
TimeWindows ==
    {[has_start |-> FALSE, start_time |-> 0, has_end |-> FALSE, end_time |-> 0],
     [has_start |-> TRUE, start_time |-> 10, has_end |-> FALSE, end_time |-> 0],
     [has_start |-> FALSE, start_time |-> 0, has_end |-> TRUE, end_time |-> 50],
     [has_start |-> TRUE, start_time |-> 10, has_end |-> TRUE, end_time |-> 50],
     [has_start |-> TRUE, start_time |-> 10, has_end |-> TRUE,
      end_time |-> DaySeconds + 5]}

WithWindow(a, w) ==
    [a EXCEPT !.has_start = w.has_start, !.start_time = w.start_time,
              !.has_end = w.has_end, !.end_time = w.end_time]

\* Filter sets combined with the time bounds: none, every filter of the
\* provider, and two filters that are not neighbours in the query.  No
\* record of the source-control provider matches these filters.
TimedFilterSets(p) ==
    CASE p = "aws" -> {NoFilters}
      [] p = "github" ->
           {NoFilters,
            [NoFilters EXCEPT !.actor = "bob", !.action = "org.add_member",
                              !.repo = "org/other", !.source_ip = "9.9.9.9"],
            [NoFilters EXCEPT !.action = "org.add_member",
                              !.source_ip = "9.9.9.9"]}
      [] OTHER ->
           {NoFilters,
            [NoFilters EXCEPT !.principal_email = "alice@example.com",
                              !.method_name = "SetIamPolicy",
                              !.resource_name = "projects/p",
                              !.source_ip = "1.1.1.1", !.log_id = "my-log"],
            [NoFilters EXCEPT !.principal_email = "alice@example.com",
                              !.source_ip = "1.1.1.1"]}

\* Hunt calls with time bounds, asking for pages of one record.
TimedArgs(p) ==
    {WithWindow(Args(MaxEvents, 1, 1, 1, f), w) :
        f \in TimedFilterSets(p), w \in TimeWindows}

\* Identifiers of the records a provider returns: row = page, column = position.
IdTable ==
    << <<"e11", "e12", "e13", "e14">>, <<"e21", "e22", "e23", "e24">>,
       <<"e31", "e32", "e33", "e34">>, <<"e41", "e42", "e43", "e44">> >>

TokenTable == <<"tok1", "tok2", "tok3", "tok4">>

\* The pages of the cloud-infra provider follow one of three patterns: the
\* same record kind throughout, or two kinds in turn.
AwsPatterns == {"logins", "get_login", "nested_get"}

AwsVariantAt(pattern, i) ==
    CASE pattern = "logins" -> "login_ip1"
      [] pattern = "get_login" -> IF i % 2 = 1 THEN "get_ip1" ELSE "login_ip1"
      [] OTHER -> IF i % 2 = 1 THEN "login_nested_ip2" ELSE "get_ip1"

AwsRecord(id, variant) ==
    CASE variant = "top_null" ->
           [EventId |-> id, EventName |-> "ConsoleLogin", EventTime |-> "dt1",
            SourceIPAddress |-> None, CloudTrailEvent |-> JsonWithIp2]
      [] variant = "no_ip_json" ->
           [EventId |-> id, EventName |-> "GetObject", EventTime |-> "dt2",
            CloudTrailEvent |-> JsonNoIp]
      [] variant = "broken_json" ->
           [EventId |-> id, EventName |-> "GetObject", EventTime |-> "dt2",
            CloudTrailEvent |-> JsonBroken]
      [] variant = "list_json" ->
           [EventId |-> id, EventName |-> "GetObject", EventTime |-> "dt2",
            CloudTrailEvent |-> JsonList]
      [] variant = "bare" ->
           [EventId |-> id, EventName |-> "GetObject"]
      [] variant = "empty_payload" ->
           [EventId |-> id, EventName |-> "GetObject", EventTime |-> "dt1",
            CloudTrailEvent |-> ""]
      [] variant = "bad_time" ->
           [EventId |-> id, EventName |-> "GetObject",
            EventTime |-> "2025-01-01 10:00", CloudTrailEvent |-> JsonWithIp1]
      [] variant = "login_ip1" ->
           [EventId |-> id, EventName |-> "ConsoleLogin", EventTime |-> "dt1",
            Username |-> "alice", SourceIPAddress |-> "1.1.1.1",
            CloudTrailEvent |-> JsonWithIp2]
      [] variant = "login_nested_ip2" ->
           [EventId |-> id, EventName |-> "ConsoleLogin",
            CloudTrailEvent |-> JsonWithIp2]
      [] OTHER ->
           [EventId |-> id, EventName |-> "GetObject", EventTime |-> "dt2",
            CloudTrailEvent |-> JsonWithIp1]

GitHubRecord(id) ==
    [_document_id |-> id, action |-> "repo.create", actor |-> "alice",
     actor_ip |-> "1.1.1.1", repo |-> "org/repo", org |-> "org",
     created_at |-> "1735725600000"]

GcpRecord(id) ==
    [insert_id |-> id, timestamp |-> "dt1", log_name |-> "projects/p/logs/my-log",
     severity |-> "NOTICE", trace |-> None, span_id |-> None,
     resource |-> EmptyDetails, labels |-> EmptyDetails,
     payload |-> "SetIamPolicy"]

\* The record lists page k of a provider can hold.
RecordLists(p, k) ==
    UNION {
      IF p = "aws"
      THEN {[i \in 1..n |-> AwsRecord(IdTable[k][i], AwsVariantAt(pt, i))] :
               pt \in AwsPatterns}
      ELSE IF p = "github"
      THEN {[i \in 1..n |-> GitHubRecord(IdTable[k][i])]}
      ELSE {[i \in 1..n |-> GcpRecord(IdTable[k][i])]}
      : n \in 0..MaxPageLen}

\* What a successful call for page k returns: the records and the cursor of
\* the next page (None on the last one).  For the source-control provider the
\* body may also be a JSON value that is no list, or no JSON at all.
PageResponses(p, k) ==
    {[body |-> "list", records |-> recs, next_token |-> t] :
        recs \in RecordLists(p, k),
        t \in IF p = "github" THEN {None} ELSE {None, TokenTable[k]}}
    \cup (IF p = "github"
          THEN {[body |-> b, records |-> <<>>, next_token |-> None] :
                   b \in {"object", "undecodable"}}
          ELSE {})

\* Records of unusual shape, served to one hunt without filters whose cap
\* (EdgeArgs) is as large as all the records the provider holds: a page of
\* shape s holds two kinds of record in turn.  The source-control hunt is
\* also run with that cap on records of the usual shape.
EdgeShapes == {"edge1", "edge2", "edge3", "badtime"}

EdgeVariantAt(shape, i) ==
    CASE shape = "edge1" -> IF i % 2 = 1 THEN "top_null" ELSE "no_ip_json"
      [] shape = "edge2" -> IF i % 2 = 1 THEN "broken_json" ELSE "list_json"
      [] shape = "edge3" -> IF i % 2 = 1 THEN "bare" ELSE "empty_payload"
      [] OTHER -> IF i % 2 = 1 THEN "login_nested_ip2" ELSE "bad_time"

EdgeArgs == Args(MaxPages * MaxPageLen, MaxPageLen, 1, 1, NoFilters)

\* The hunts explored: the arguments and the shape of the records served.
\* The cloud-infra provider serves one hunt pages of one pattern.
Scenarios(p) ==
    IF p = "aws"
    THEN {[args |-> a, shapes |-> pt] : a \in HuntArgs(p), pt \in AwsPatterns}
         \cup {[args |-> EdgeArgs, shapes |-> sh] : sh \in EdgeShapes}
         \cup {[args |-> a, shapes |-> "logins"] : a \in TimedArgs(p)}
    ELSE {[args |-> a, shapes |-> "usual"] : a \in HuntArgs(p) \cup TimedArgs(p)}
         \cup (IF p = "github" THEN {[args |-> EdgeArgs, shapes |-> "usual"]}
               ELSE {})

\* What a successful call for page k returns to a hunt served records of
\* the given shape.
ServedResponses(p, k, shapes) ==
    IF p # "aws" THEN PageResponses(p, k)
    ELSE {[body |-> "list",
           records |-> [i \in 1..n |->
                           AwsRecord(IdTable[k][i],
                                     IF shapes \in AwsPatterns
                                     THEN AwsVariantAt(shapes, i)
                                     ELSE EdgeVariantAt(shapes, i))],
           next_token |-> t] :
             n \in 0..MaxPageLen, t \in {None, TokenTable[k]}}

\* Failures of a remote call.  retryable: what the provider's executor
\* treats as throttling.
AwsClientErrorCodes == _THROTTLE_ERROR_CODES \cup {"AccessDeniedException"}

GitHubHeaderSets ==
    {EmptyDetails,
     ("X-RateLimit-Remaining" :> "0") @@ ("X-RateLimit-Reset" :> ResetSoon),
     ("X-RateLimit-Remaining" :> "0") @@ ("X-RateLimit-Reset" :> ResetPast),
     ("X-RateLimit-Remaining" :> "0") @@ ("X-RateLimit-Reset" :> ResetGarbled),
     ("X-RateLimit-Remaining" :> "0"),
     ("X-RateLimit-Remaining" :> "5") @@ ("X-RateLimit-Reset" :> ResetSoon)}

Failures(p) ==
    CASE p = "aws" ->
           {[type |-> "ClientError", code |-> c, status_code |-> 0,
             headers |-> EmptyDetails] : c \in AwsClientErrorCodes}
           \cup {[type |-> "EndpointConnectionError", code |-> "unreachable",
                  status_code |-> 0, headers |-> EmptyDetails]}
      [] p = "github" ->
           {[type |-> "Response", code |-> "status", status_code |-> sc,
             headers |-> hd] :
               sc \in {403, 429}, hd \in GitHubHeaderSets}
           \cup {[type |-> "Response", code |-> "status", status_code |-> sc,
                  headers |-> EmptyDetails] : sc \in {404, 500}}
           \cup {[type |-> "ConnectionError", code |-> "refused",
                  status_code |-> 0, headers |-> EmptyDetails]}
      [] OTHER ->
           {[type |-> t, code |-> "grpc", status_code |-> 0,
             headers |-> EmptyDetails] :
               t \in {"ResourceExhausted", "TooManyRequests",
                      "PermissionDenied"}}

\* Does the executor of provider p see failure f as rate limiting.
IsThrottle(p, f) ==
    CASE p = "aws" -> f.type = "ClientError" /\ f.code \in _THROTTLE_ERROR_CODES
      [] p = "github" -> f.type = "Response" /\ f.status_code \in _RATE_LIMIT_STATUS
      [] OTHER -> f.type \in {"ResourceExhausted", "TooManyRequests"}

(***************************************************************************)
(* Backoff executors.  Each operator is one pass of the executor's loop    *)
(* after the remote call failed with f at retry index attempt: either the  *)
(* failure is raised to the hunt (exc: type and text of the exception) or  *)
(* the executor sleeps for delay and calls again.                          *)
(***************************************************************************)
\* raise E(text) from cause: cause is the type of the exception chained as
\* __cause__, None for a plain raise.
RaiseFrom(type, text, cause) == [action |-> "raise", delay |-> 0, type |-> type, text |-> text, cause |-> cause]
Raise(type, text) == RaiseFrom(type, text, None)
SleepFor(delay) == [action |-> "sleep", delay |-> delay, type |-> None, text |-> None, cause |-> None]

_call_with_backoff_late_exponent(f, attempt, throttle_max_retries, throttle_base_delay) ==
    IF f.type # "ClientError" THEN Raise(f.type, f.code)
    ELSE IF f.code \notin _THROTTLE_ERROR_CODES \/ attempt >= throttle_max_retries
    THEN Raise(f.type, f.code)
    ELSE SleepFor(throttle_base_delay * (2 ^ (attempt + 1)))

_call_with_backoff(f, attempt, throttle_max_retries, throttle_base_delay) ==
    IF f.type # "ClientError" THEN Raise(f.type, f.code)
    ELSE IF f.code \notin _THROTTLE_ERROR_CODES \/ attempt >= throttle_max_retries
    THEN Raise(f.type, f.code)
    ELSE SleepFor(throttle_base_delay * (2 ^ attempt))

github_call_with_backoff_retries_all(f, attempt, throttle_max_retries, throttle_base_delay, now) ==
    IF f.type # "Response" THEN Raise(f.type, f.code)
    ELSE IF attempt < throttle_max_retries
    THEN SleepFor(GitHubWait(f.headers, throttle_base_delay * (2 ^ attempt), now))
    ELSE Raise("RuntimeError", GitHubApiError(f.status_code))

github_call_with_backoff(f, attempt, throttle_max_retries, throttle_base_delay, now) ==
    IF f.type # "Response" THEN Raise(f.type, f.code)
    ELSE IF f.status_code \in _RATE_LIMIT_STATUS /\ attempt < throttle_max_retries
    THEN SleepFor(GitHubWait(f.headers, throttle_base_delay * (2 ^ attempt), now))
    ELSE Raise("RuntimeError", GitHubApiError(f.status_code))

gcp_call_with_backoff_reraises(f, attempt, throttle_max_retries, throttle_base_delay) ==
    IF f.type \in {"ResourceExhausted", "TooManyRequests"}
    THEN IF attempt >= throttle_max_retries
         THEN Raise(f.type, f.code)
         ELSE SleepFor(throttle_base_delay * (2 ^ attempt))
    ELSE Raise(f.type, f.code)

gcp_call_with_backoff_one_more(f, attempt, throttle_max_retries, throttle_base_delay) ==
    IF f.type \in {"ResourceExhausted", "TooManyRequests"}
    THEN IF attempt > throttle_max_retries
         THEN RaiseFrom("RuntimeError", GcpRetriesExhausted(f.type), f.type)
         ELSE SleepFor(throttle_base_delay * (2 ^ attempt))
    ELSE Raise(f.type, f.code)

gcp_call_with_backoff(f, attempt, throttle_max_retries, throttle_base_delay) ==
    IF f.type \in {"ResourceExhausted", "TooManyRequests"}
    THEN IF attempt >= throttle_max_retries
         THEN RaiseFrom("RuntimeError", GcpRetriesExhausted(f.type), f.type)
         ELSE SleepFor(throttle_base_delay * (2 ^ attempt))
    ELSE Raise(f.type, f.code)

(***************************************************************************)
(* Cloud-infra hunt: AwsIRHunt.lookup_events.                              *)
(***************************************************************************)
lookup_events_start(a) ==
    LET now == Clock0
        start_time == IF a.has_start THEN a.start_time ELSE now - DaySeconds
        end_time == IF a.has_end THEN a.end_time ELSE now
        f == a.filters
    IN  [provider |-> "aws", args |-> a, pc |-> "loop", escaped |-> None,
         start_time |-> start_time, end_time |-> end_time,
         result |-> OperationResult("lookup_events",
                        _build_target_string(f.user_name, f.access_key_id,
                            f.event_name, f.source_ip, start_time, end_time),
                        TRUE),
         lookup_attributes |-> _build_lookup_attributes(f.user_name,
                                   f.access_key_id, f.event_name),
         events |-> <<>>, total_api_calls |-> 0, next_token |-> None,
         params |-> EmptyDetails, attempt |-> 0, delay |-> 0]

\* Lines 158-169.
lookup_events_return(h) ==
    [h EXCEPT
       !.pc = "done",
       !.result.details =
           SetItem(SetItem(@, "events", h.events), "statistics",
                   [total_events_returned |-> Len(h.events),
                    api_calls |-> h.total_api_calls,
                    lookup_attributes |-> h.lookup_attributes,
                    time_range |-> [start_time |-> isoformat(h.start_time),
                                    end_time |-> isoformat(h.end_time)]])]

lookup_events_params_no_token(h) ==
    [StartTime |-> h.start_time, EndTime |-> h.end_time,
     MaxResults |-> Min(h.args.page_size, AwsMaxResults)]
    @@ (IF Len(h.lookup_attributes) > 0
        THEN [LookupAttributes |-> h.lookup_attributes] ELSE EmptyDetails)

\* Lines 115-123: the request for the next page.
lookup_events_params(h) ==
    [StartTime |-> h.start_time, EndTime |-> h.end_time,
     MaxResults |-> Min(h.args.page_size, AwsMaxResults)]
    @@ (IF Len(h.lookup_attributes) > 0
        THEN [LookupAttributes |-> h.lookup_attributes] ELSE EmptyDetails)
    @@ (IF Truthy(h.next_token)
        THEN [NextToken |-> h.next_token] ELSE EmptyDetails)

lookup_events_continues_past_cap(h) == ~(Len(h.events) > h.args.max_events)

\* Lines 111-113: TRUE when the loop goes on to another request.
lookup_events_continues(h) == ~(Len(h.events) >= h.args.max_events)

\* Lines 132 and 137-156: the call returned resp.
lookup_events_page(h, resp) ==
    LET loop == AwsPageLoop(resp.records, h.events, h.args.max_events,
                            h.args.filters.event_name, h.args.filters.source_ip,
                            h.lookup_attributes)
        h1 == [h EXCEPT !.total_api_calls = @ + 1, !.events = loop.events]
    IN  IF loop.raised
        THEN [h1 EXCEPT !.pc = "raised", !.escaped = "AttributeError"]
        ELSE IF ~Truthy(resp.next_token)
        THEN lookup_events_return([h1 EXCEPT !.next_token = resp.next_token])
        ELSE [h1 EXCEPT !.next_token = resp.next_token, !.pc = "loop"]

lookup_events_except_discards(h, exc) ==
    lookup_events_return(
        [h EXCEPT !.events = <<>>,
                  !.result = add_error(@,
            <<"Failed to lookup CloudTrail events: ", exc.type, exc.text>>)])

\* Lines 133-135: the executor raised exc.
lookup_events_except(h, exc) ==
    lookup_events_return(
        [h EXCEPT !.result = add_error(@,
            <<"Failed to lookup CloudTrail events: ", exc.type, exc.text>>)])

(***************************************************************************)
(* Source-control hunt: GitHubIRHunt.search_audit_log.                     *)
(***************************************************************************)
GitHubConfigInclude == "web"

search_audit_log_start(a) ==
    LET f == a.filters
        phrase == _build_phrase(f.actor, f.action, f.repo, f.source_ip,
                                a.has_start, a.start_time, a.has_end, a.end_time)
    IN  [provider |-> "github", args |-> a, pc |-> "loop", escaped |-> None,
         phrase |-> phrase,
         result |-> OperationResult("github_search_audit_log",
                        _target_string(f.actor, f.action, f.repo, f.source_ip,
                            a.has_start, a.start_time, a.has_end, a.end_time),
                        TRUE),
         events |-> <<>>, page |-> 1,
         include_value |-> IF Truthy(f.include) THEN f.include
                           ELSE GitHubConfigInclude,
         params |-> EmptyDetails, attempt |-> 0, delay |-> 0]

\* Lines 126-134.
search_audit_log_return(h) ==
    [h EXCEPT
       !.pc = "done",
       !.result.details =
           SetItem(SetItem(@, "events", h.events), "statistics",
                   [total_events_returned |-> Len(h.events),
                    pages_fetched |-> h.page,
                    phrase |-> h.phrase,
                    include |-> h.include_value])]

\* Lines 91-97.
search_audit_log_params(h) ==
    [page |-> h.page,
     per_page |-> Min(Max(h.args.page_size, 1), GitHubMaxPerPage),
     include |-> h.include_value]
    @@ (IF h.phrase # <<>> THEN [phrase |-> h.phrase] ELSE EmptyDetails)

\* Line 90.
search_audit_log_continues(h) == Len(h.events) < h.args.max_events

search_audit_log_page_empty_is_error(h, resp) ==
    IF resp.body = "undecodable"
    THEN [h EXCEPT !.pc = "raised", !.escaped = "JSONDecodeError"]
    ELSE IF resp.body # "list" \/ resp.records = <<>>
    THEN search_audit_log_return(
             [h EXCEPT !.result = add_error(@,
                 <<"GitHub audit log API failed: ", "RuntimeError",
                   "no events">>)])
    ELSE LET h1 == [h EXCEPT !.events = GitHubPageLoop(resp.records, @,
                                                       h.args.max_events)]
         IN  IF Len(resp.records) < h.params.per_page
             THEN search_audit_log_return(h1)
             ELSE [h1 EXCEPT !.page = @ + 1, !.pc = "loop"]

search_audit_log_page_reads_on(h, resp) ==
    IF resp.body = "undecodable"
    THEN [h EXCEPT !.pc = "raised", !.escaped = "JSONDecodeError"]
    ELSE IF resp.body # "list" \/ resp.records = <<>>
    THEN search_audit_log_return(h)
    ELSE [h EXCEPT !.events = GitHubPageLoop(resp.records, @,
                                             h.args.max_events),
                   !.page = @ + 1, !.pc = "loop"]

\* Lines 110-124: the executor returned a 2xx response.
search_audit_log_page(h, resp) ==
    IF resp.body = "undecodable"
    THEN [h EXCEPT !.pc = "raised", !.escaped = "JSONDecodeError"]
    ELSE IF resp.body # "list" \/ resp.records = <<>>
    THEN search_audit_log_return(h)
    ELSE LET h1 == [h EXCEPT !.events = GitHubPageLoop(resp.records, @,
                                                       h.args.max_events)]
         IN  IF Len(resp.records) < h.params.per_page
             THEN search_audit_log_return(h1)
             ELSE [h1 EXCEPT !.page = @ + 1, !.pc = "loop"]

\* Lines 106-108.
search_audit_log_except(h, exc) ==
    search_audit_log_return(
        [h EXCEPT !.result = add_error(@,
            <<"GitHub audit log API failed: ", exc.type, exc.text>>)])

(***************************************************************************)
(* Cloud logging hunt: GcpIRHunt.search_logs.                              *)
(***************************************************************************)
GcpConfigDefaultLogId == "cloudaudit.googleapis.com/activity"

search_logs_start(a) ==
    LET f == a.filters
        log_id_value == IF Truthy(f.log_id) THEN f.log_id
                        ELSE GcpConfigDefaultLogId
    IN  [provider |-> "gcp", args |-> a, pc |-> "loop", escaped |-> None,
         log_id_value |-> log_id_value,
         filter_str |-> _build_filter(f.principal_email, f.method_name,
                            f.resource_name, f.source_ip, log_id_value,
                            a.has_start, a.start_time, a.has_end, a.end_time),
         result |-> OperationResult("gcp_search_logs",
                        gcp_target_string(f.principal_email, f.method_name,
                            f.resource_name, f.source_ip, log_id_value,
                            a.has_start, a.start_time, a.has_end, a.end_time),
                        TRUE),
         events |-> <<>>, next_token |-> None,
         params |-> EmptyDetails, attempt |-> 0, delay |-> 0]

search_logs_return_counts_cap(h) ==
    [h EXCEPT
       !.pc = "done",
       !.result.details =
           SetItem(SetItem(@, "entries", h.events), "statistics",
                   [total_entries_returned |-> Max(h.args.max_events, 0),
                    filter |-> h.filter_str,
                    log_id |-> h.log_id_value])]

\* Lines 124-131.
search_logs_return(h) ==
    [h EXCEPT
       !.pc = "done",
       !.result.details =
           SetItem(SetItem(@, "entries", h.events), "statistics",
                   [total_entries_returned |-> Len(h.events),
                    filter |-> h.filter_str,
                    log_id |-> h.log_id_value])]

\* Lines 98-101.
search_logs_params(h) ==
    [filter_ |-> h.filter_str,
     page_size |-> Min(Max(h.args.page_size, 1), GcpMaxPageSize),
     order_by |-> "timestamp desc",
     page_token |-> h.next_token]

\* Line 95.
search_logs_continues(h) == Len(h.events) < h.args.max_events

\* Lines 110-122: next(iterator.pages) on the iterator the executor returned.
search_logs_page(h, resp) ==
    IF resp.body = "error"
    THEN [h EXCEPT !.pc = "raised", !.escaped = resp.error]
    ELSE IF resp.body = "stop"
    THEN search_logs_return(h)
    ELSE LET h1 == [h EXCEPT !.events = GcpPageLoop(resp.records, @,
                                                    h.args.max_events),
                             !.next_token = resp.next_token]
         IN  IF ~Truthy(h1.next_token) \/ Len(h1.events) >= h.args.max_events
             THEN search_logs_return(h1)
             ELSE [h1 EXCEPT !.pc = "loop"]

\* Lines 105-107.
search_logs_except(h, exc) ==
    search_logs_return(
        [h EXCEPT !.result = gcp_add_error(@,
            <<"GCP Logging API failed: ", exc.type, exc.text>>)])

(***************************************************************************)
(* The state machine of one hunt call.                                     *)
(*   pc = "loop"   at the head of the pagination loop                      *)
(*   pc = "call"   the executor has invoked the remote listing call        *)
(*   pc = "sleep"  the executor is in time.sleep(delay)                    *)
(*   pc = "fetch"  (cloud logging) next(iterator.pages) is running         *)
(*   pc = "done"   the hunt returned hunt.result                           *)
(*   pc = "raised" an exception left the hunt call (hunt.escaped)          *)
(***************************************************************************)
Start(p, a) ==
    CASE p = "aws" -> lookup_events_start(a)
      [] p = "github" -> search_audit_log_start(a)
      [] OTHER -> search_logs_start(a)

Continues(h) ==
    CASE h.provider = "aws" -> lookup_events_continues(h)
      [] h.provider = "github" -> search_audit_log_continues(h)
      [] OTHER -> search_logs_continues(h)

Params(h) ==
    CASE h.provider = "aws" -> lookup_events_params(h)
      [] h.provider = "github" -> search_audit_log_params(h)
      [] OTHER -> search_logs_params(h)

Return(h) ==
    CASE h.provider = "aws" -> lookup_events_return(h)
      [] h.provider = "github" -> search_audit_log_return(h)
      [] OTHER -> search_logs_return(h)

OnPage(h, resp) ==
    CASE h.provider = "aws" -> lookup_events_page(h, resp)
      [] h.provider = "github" -> search_audit_log_page(h, resp)
      [] OTHER -> search_logs_page(h, resp)

Except(h, exc) ==
    CASE h.provider = "aws" -> lookup_events_except(h, exc)
      [] h.provider = "github" -> search_audit_log_except(h, exc)
      [] OTHER -> search_logs_except(h, exc)

Backoff_hunt_budget(h, f, now) ==
    CASE h.provider = "aws" ->
           _call_with_backoff(f, h.attempt + h.total_api_calls,
                              h.args.throttle_max_retries,
                              h.args.throttle_base_delay)
      [] h.provider = "github" ->
           github_call_with_backoff(f, h.attempt, h.args.throttle_max_retries,
                                    h.args.throttle_base_delay, now)
      [] OTHER ->
           gcp_call_with_backoff(f, h.attempt, h.args.throttle_max_retries,
                                 h.args.throttle_base_delay)

Backoff(h, f, now) ==
    CASE h.provider = "aws" ->
           _call_with_backoff(f, h.attempt, h.args.throttle_max_retries,
                              h.args.throttle_base_delay)
      [] h.provider = "github" ->
           github_call_with_backoff(f, h.attempt, h.args.throttle_max_retries,
                                    h.args.throttle_base_delay, now)
      [] OTHER ->
           gcp_call_with_backoff(f, h.attempt, h.args.throttle_max_retries,
                                 h.args.throttle_base_delay)

\* The executor returned or raised: its locals are gone.
ExitExecutor(h) == [h EXCEPT !.attempt = 0, !.delay = 0]

\* The rate-limit headers of f make the source-control executor wait for the
\* announced reset time.
ResetHeaderApplies(f) ==
    /\ Get(f.headers, "X-RateLimit-Remaining") = "0"
    /\ Get(f.headers, "X-RateLimit-Reset") \in {ResetSoon, ResetPast}

Obs0 ==
    [calls |-> 0,          \* remote listing calls issued by the hunt
     requests |-> 0,       \* page requests: runs of the executor
     attempts |-> 0,       \* calls issued by the current executor run
     slept |-> 0,          \* time slept by the current executor run
     sleeps |-> 0,         \* sleeps completed by the current executor run
     throttles |-> 0,      \* rate-limit failures seen by the current run
     reset_wait |-> FALSE, \* a reset header applied in the current run
     exec |-> "idle",      \* idle, running, returned, raised
     failure |-> None,     \* the failure the executor raised with
     headers |-> EmptyDetails, \* headers of the response being slept on
     origin |-> None,      \* type of the failure the last call ended with
     raised |-> Raise(None, None), \* the exception the executor raised
     pages |-> <<>>,       \* one entry per page served to the hunt
     fetched |-> <<>>,     \* the records of those pages, in order
     stopped |-> FALSE,    \* the iterator of the cloud logging client ran out
     added |-> <<>>]       \* messages the caller added after the return

Init ==
    /\ \E p \in Providers : \E sc \in Scenarios(p) :
         /\ hunt = Start(p, sc.args)
         /\ env = [served |-> 0, shapes |-> sc.shapes]
    /\ obs = Obs0

\* The loop goes on: build the request, enter the executor, call.
Request ==
    /\ hunt.pc = "loop"
    /\ Continues(hunt)
    /\ hunt' = [hunt EXCEPT !.params = Params(hunt), !.attempt = 0,
                            !.pc = "call"]
    /\ obs' = [obs EXCEPT !.calls = @ + 1, !.requests = @ + 1,
                          !.attempts = 1, !.slept = 0, !.sleeps = 0,
                          !.throttles = 0, !.reset_wait = FALSE,
                          !.exec = "running", !.failure = None,
                          !.origin = None, !.raised = Raise(None, None)]
    /\ UNCHANGED env

\* The loop ends because the cap is reached.
CapReached ==
    /\ hunt.pc = "loop"
    /\ ~Continues(hunt)
    /\ hunt' = Return(hunt)
    /\ UNCHANGED <<env, obs>>

\* The remote call of the cloud-infra or source-control hunt returns a page.
CallReturnsPage ==
    /\ hunt.pc = "call"
    /\ hunt.provider \in {"aws", "github"}
    /\ env.served < MaxPages
    /\ \E resp \in ServedResponses(hunt.provider, env.served + 1, env.shapes) :
         /\ hunt' = OnPage(ExitExecutor(hunt), resp)
         /\ obs' = [obs EXCEPT
                      !.exec = "returned",
                      !.pages = Append(@, [n |-> Len(resp.records),
                                           more |-> Truthy(resp.next_token),
                                           body |-> resp.body,
                                           records |-> resp.records,
                                           next_token |-> resp.next_token]),
                      !.fetched = @ \o resp.records]
    /\ env' = [env EXCEPT !.served = @ + 1]

\* list_entries of the cloud logging client returns an iterator; no page has
\* been fetched yet.
CallReturnsIterator ==
    /\ hunt.pc = "call"
    /\ hunt.provider = "gcp"
    /\ hunt' = [ExitExecutor(hunt) EXCEPT !.pc = "fetch"]
    /\ obs' = [obs EXCEPT !.exec = "returned"]
    /\ UNCHANGED env

FetchFailures == {"ResourceExhausted", "PermissionDenied"}

\* next(iterator.pages): a page, the end of the iteration, or a failure of the
\* request the iterator sends.
FetchPage ==
    /\ hunt.pc = "fetch"
    /\ \/ /\ env.served < MaxPages
          /\ \E resp \in ServedResponses("gcp", env.served + 1, env.shapes) :
               /\ hunt' = OnPage(hunt, resp)
               /\ obs' = [obs EXCEPT
                            !.pages = Append(@, [n |-> Len(resp.records),
                                                 more |-> Truthy(resp.next_token),
                                                 body |-> resp.body,
                                                 records |-> resp.records,
                                                 next_token |-> resp.next_token]),
                            !.fetched = @ \o resp.records]
          /\ env' = [env EXCEPT !.served = @ + 1]
       \/ /\ hunt' = OnPage(hunt, [body |-> "stop", records |-> <<>>,
                                   next_token |-> None, error |-> None])
          /\ obs' = [obs EXCEPT !.stopped = TRUE]
          /\ UNCHANGED env
       \/ /\ \E e \in FetchFailures :
               hunt' = OnPage(hunt, [body |-> "error", records |-> <<>>,
                                     next_token |-> None, error |-> e])
          /\ obs' = [obs EXCEPT !.failure = "fetch"]
          /\ UNCHANGED env

\* The remote call fails with a rate-limit failure the executor retries.
CallThrottled ==
    /\ hunt.pc = "call"
    /\ \E f \in Failures(hunt.provider) :
         LET b == Backoff(hunt, f, Clock0)
         IN  /\ b.action = "sleep"
             /\ hunt' = [hunt EXCEPT !.delay = b.delay, !.pc = "sleep"]
             /\ obs' = [obs EXCEPT
                          !.throttles = IF IsThrottle(hunt.provider, f)
                                        THEN @ + 1 ELSE @,
                          !.reset_wait = @ \/ ResetHeaderApplies(f),
                          !.headers = f.headers]
    /\ UNCHANGED env

CallFails_sleeps_first ==
    /\ hunt.pc = "call"
    /\ \E f \in Failures(hunt.provider) :
         LET b == Backoff(hunt, f, Clock0)
             delay == hunt.args.throttle_base_delay * (2 ^ hunt.attempt)
         IN  /\ b.action = "raise"
             /\ hunt' = Except(ExitExecutor(hunt), b)
             /\ obs' = [obs EXCEPT
                          !.exec = "raised",
                          !.slept = IF IsThrottle(hunt.provider, f)
                                    THEN @ + delay ELSE @,
                          !.sleeps = IF IsThrottle(hunt.provider, f)
                                     THEN @ + 1 ELSE @,
                          !.throttles = IF IsThrottle(hunt.provider, f)
                                        THEN @ + 1 ELSE @,
                          !.failure = IF IsThrottle(hunt.provider, f)
                                      THEN "exhausted" ELSE "fatal",
                          !.origin = f.type, !.raised = b]
    /\ UNCHANGED env

\* The remote call fails and the executor raises: the hunt records the error
\* and returns.
CallFails ==
    /\ hunt.pc = "call"
    /\ \E f \in Failures(hunt.provider) :
         LET b == Backoff(hunt, f, Clock0)
         IN  /\ b.action = "raise"
             /\ hunt' = Except(ExitExecutor(hunt), b)
             /\ obs' = [obs EXCEPT
                          !.exec = "raised",
                          !.throttles = IF IsThrottle(hunt.provider, f)
                                        THEN @ + 1 ELSE @,
                          !.failure = IF IsThrottle(hunt.provider, f)
                                      THEN "exhausted" ELSE "fatal",
                          !.origin = f.type, !.raised = b]
    /\ UNCHANGED env

Sleep_counts_retry ==
    /\ hunt.pc = "sleep"
    /\ hunt' = IF hunt.provider = "aws"
               THEN [hunt EXCEPT !.attempt = @ + 1, !.pc = "call",
                                 !.total_api_calls = @ + 1]
               ELSE [hunt EXCEPT !.attempt = @ + 1, !.pc = "call"]
    /\ UNCHANGED env
    /\ obs' = [obs EXCEPT !.slept = @ + hunt.delay, !.sleeps = @ + 1,
                          !.calls = @ + 1,
                          !.attempts = @ + 1, !.headers = EmptyDetails]

\* time.sleep(delay) returns; the executor calls again.
Sleep ==
    /\ hunt.pc = "sleep"
    /\ hunt' = [hunt EXCEPT !.attempt = @ + 1, !.pc = "call"]
    /\ UNCHANGED env
    /\ obs' = [obs EXCEPT !.slept = @ + hunt.delay, !.sleeps = @ + 1,
                          !.calls = @ + 1,
                          !.attempts = @ + 1, !.headers = EmptyDetails]

CallerMessage == <<"caller: ", "ValueError", "post-processing failed">>

\* The caller of the hunt adds an error to the result it received.
AddError ==
    /\ hunt.pc = "done"
    /\ Len(hunt.result.errors) < MaxErrors
    /\ hunt' = [hunt EXCEPT !.result = IF hunt.provider = "gcp"
                                       THEN gcp_add_error(@, CallerMessage)
                                       ELSE add_error(@, CallerMessage)]
    /\ obs' = [obs EXCEPT !.added = Append(@, CallerMessage)]
    /\ UNCHANGED env

Next ==
    \/ Request
    \/ CapReached
    \/ CallReturnsPage
    \/ CallReturnsIterator
    \/ FetchPage
    \/ CallThrottled
    \/ CallFails
    \/ Sleep
    \/ AddError

Spec == Init /\ [][Next]_vars

(***************************************************************************)
(* Properties.                                                             *)
(***************************************************************************)
\* details.events (details.entries for the cloud logging hunt) of a result.
ResultEvents(h) ==
    IF h.provider = "gcp" THEN h.result.details["entries"]
    ELSE h.result.details["events"]

Returned == hunt.pc = "done"

\* The hunt returned and the caller has not touched the result.
JustReturned == hunt.pc = "done" /\ obs.added = <<>>

\* What a hunt with arguments a has to hold after fetching the records raws:
\* the normalized records that pass the client-side filters, in fetch order,
\* cut at the cap.
ExpectedEvents(p, a, raws) ==
    LET f == a.filters
        Norm(r) == CASE p = "aws" -> _normalize_event(r)
                     [] p = "github" -> github_normalize_event(r)
                     [] OTHER -> _normalize_entry(r)
        Wanted(n) ==
            p = "aws" =>
              /\ Truthy(f.source_ip) => n.source_ip_address = f.source_ip
              /\ (Truthy(f.event_name)
                    /\ (Truthy(f.access_key_id) \/ Truthy(f.user_name)))
                 => n.event_name = f.event_name
    IN  Take(SelectSeq([i \in 1..Len(raws) |-> Norm(raws[i])], Wanted),
             a.max_events)

\* C1 (as stated): the number of events in a returned result never exceeds
\* the configured max_events (max_entries).
C1_NeverExceedsCap ==
    Returned => Len(ResultEvents(hunt)) <= hunt.args.max_events

\* C1 (amended): the number of events in a returned result never exceeds
\* max(max_events, 0): a non-negative cap is never exceeded and a negative
\* cap gives an empty result.
C1_NeverExceedsNonNegativeCap ==
    Returned => Len(ResultEvents(hunt)) <= Max(hunt.args.max_events, 0)

\* The cap cut the result: more records were fetched than were returned.
C1_Witness ==
    /\ Returned
    /\ hunt.args.max_events > 0
    /\ Len(ResultEvents(hunt)) = hunt.args.max_events
    /\ Len(ExpectedEvents(hunt.provider,
                          [hunt.args EXCEPT !.max_events = 2 * MaxPages * MaxPageLen],
                          obs.fetched)) > hunt.args.max_events

\* C2: no failure of the remote API (at call time, while the first page of a
\* returned iterator is fetched, or while the response body is decoded)
\* leaves the hunt call as an exception.
C2_NoRemoteFailureEscapes ==
    ~(hunt.pc = "raised" /\ hunt.escaped \in FetchFailures \cup {"JSONDecodeError"})

\* C3: when the listing call for page k fails, the result has success=false,
\* exactly one error and exactly the events accumulated from pages 1..k-1.
C3_FailureKeepsPartialEvents ==
    (JustReturned /\ obs.exec = "raised") =>
        /\ hunt.result.success = FALSE
        /\ Len(hunt.result.errors) = 1
        /\ ResultEvents(hunt) = ExpectedEvents(hunt.provider, hunt.args, obs.fetched)

\* A call failed after a page that had contributed events.
C3_Witness ==
    /\ JustReturned
    /\ obs.exec = "raised"
    /\ Len(obs.pages) >= 1
    /\ Len(ResultEvents(hunt)) >= 1

\* C4: in every returned result success is true if and only if errors is
\* empty.
C4_SuccessIffNoErrors ==
    Returned => (hunt.result.success <=> hunt.result.errors = <<>>)

\* The hunt failed after partial progress.
C4_Witness ==
    /\ JustReturned
    /\ ~hunt.result.success
    /\ hunt.result.errors # <<>>
    /\ ResultEvents(hunt) # <<>>

FirstPageEmpty ==
    /\ Len(obs.pages) >= 1
    /\ obs.pages[1].body = "list"
    /\ obs.pages[1].n = 0

EmptySuccess ==
    /\ hunt.result.success
    /\ hunt.result.errors = <<>>
    /\ ResultEvents(hunt) = <<>>

\* C5 (as stated): when the first page returned by the provider is empty the
\* hunt returns success=true, no errors and no events.
C5_EmptyFirstPageIsSuccess ==
    (JustReturned /\ FirstPageEmpty) => EmptySuccess

\* C5 (amended): when the first page returned by the provider is empty and
\* names no next page, the hunt returns at once with success=true, no errors
\* and no events.
C5_EmptyLastPageIsSuccess ==
    (FirstPageEmpty /\ ~obs.pages[1].more /\ obs.added = <<>>) =>
        (Returned /\ EmptySuccess)

C5_Witness ==
    /\ Returned
    /\ FirstPageEmpty
    /\ ~obs.pages[1].more
    /\ hunt.result.success

\* C6: once success is false it is false in every later state.
C6_SuccessNeverReverts ==
    [][hunt.result.success = FALSE => hunt'.result.success = FALSE]_vars

\* An error was added to a result that had already failed.
C6_Witness ==
    /\ Returned
    /\ ~hunt.result.success
    /\ Len(hunt.result.errors) = 2
    /\ Len(obs.added) = 1

\* C7: add_error(message) appends exactly message at the end of errors, sets
\* success=false and leaves operation, target, details and the earlier
\* errors unchanged.
C7_AddErrorEffect ==
    [][Len(obs'.added) = Len(obs.added) + 1 =>
         /\ hunt'.result.errors =
                Append(hunt.result.errors, obs'.added[Len(obs'.added)])
         /\ hunt'.result.success = FALSE
         /\ hunt'.result.operation = hunt.result.operation
         /\ hunt'.result.target = hunt.result.target
         /\ hunt'.result.details = hunt.result.details]_vars

\* The same message was added twice.
C7_Witness ==
    /\ Len(hunt.result.errors) = 2
    /\ hunt.result.errors[1] = hunt.result.errors[2]
    /\ Len(obs.added) = 2

\* C8: a call that is rate limited N times and then succeeds returns after
\* N retries (N + 1 attempts) and a total sleep of
\* base_delay * (2^0 + ... + 2^(N-1)) (source-control: when no reset header
\* applied); the executor does not give up while N <= max_retries.
C8_RetriesThenSuccess ==
    /\ obs.exec = "returned" =>
         /\ obs.attempts = obs.throttles + 1
         /\ ~obs.reset_wait =>
              obs.slept = hunt.args.throttle_base_delay * ((2 ^ obs.throttles) - 1)
    /\ obs.failure = "exhausted" =>
         obs.throttles > hunt.args.throttle_max_retries

\* The call succeeded on the last attempt the retry budget allows.
C8_Witness ==
    /\ obs.exec = "returned"
    /\ hunt.args.throttle_max_retries = 2
    /\ obs.throttles = 2
    /\ ~obs.reset_wait
    /\ obs.slept = 3 * hunt.args.throttle_base_delay

\* C9 (as stated): a call that is always rate limited makes the executor
\* raise after exactly max_retries + 1 attempts.
C9_ExhaustedAfterBudget ==
    obs.failure = "exhausted" =>
        obs.attempts = hunt.args.throttle_max_retries + 1

\* C9 (amended): a call that is always rate limited makes the executor raise
\* after exactly max(max_retries, 0) + 1 attempts, and no executor run makes
\* more attempts than that.
C9_ExhaustedAfterNonNegativeBudget ==
    /\ obs.failure = "exhausted" =>
         /\ obs.attempts = Max(hunt.args.throttle_max_retries, 0) + 1
         /\ obs.throttles = obs.attempts
    /\ obs.attempts <= Max(hunt.args.throttle_max_retries, 0) + 1

C9_Witness ==
    /\ obs.failure = "exhausted"
    /\ hunt.args.throttle_max_retries = 2
    /\ obs.attempts = 3

ResetTime(text) ==
    CASE text = ResetSoon -> 103
      [] text = ResetPast -> 90

\* C11: on a 403/429 response at retry index attempt < max_retries the
\* source-control executor sleeps max(reset_time - now, base_delay *
\* 2^attempt) when the remaining quota is "0" and a reset time is given, and
\* exactly base_delay * 2^attempt when the header is absent, unparsable or
\* the quota is not zero; the sleep is never shorter than
\* base_delay * 2^attempt and the response is retried while the budget lasts.
C11_ResetHeaderWait ==
    /\ (hunt.provider = "github" /\ hunt.pc = "sleep") =>
         LET delay == hunt.args.throttle_base_delay * (2 ^ hunt.attempt)
             remaining == Get(obs.headers, "X-RateLimit-Remaining")
             reset == Get(obs.headers, "X-RateLimit-Reset")
         IN  /\ hunt.attempt < hunt.args.throttle_max_retries
             /\ hunt.delay >= delay
             /\ (remaining = "0" /\ reset \in {ResetSoon, ResetPast}) =>
                  hunt.delay = Max(ResetTime(reset) - Clock0, delay)
             /\ ~(remaining = "0" /\ reset \in {ResetSoon, ResetPast}) =>
                  hunt.delay = delay
    /\ (hunt.provider = "github" /\ obs.failure = "exhausted") =>
         obs.throttles = Max(hunt.args.throttle_max_retries, 0) + 1

\* The executor waited for the announced reset time, longer than the
\* exponential delay.
C11_Witness ==
    /\ hunt.provider = "github"
    /\ hunt.pc = "sleep"
    /\ Get(obs.headers, "X-RateLimit-Remaining") = "0"
    /\ Get(obs.headers, "X-RateLimit-Reset") = ResetSoon
    /\ hunt.delay > hunt.args.throttle_base_delay * (2 ^ hunt.attempt)

\* C12: when a page call of the cloud logging hunt is rate limited until the
\* retry budget is used up, the executor raises a distinct error (not the
\* provider's) whose message says that the rate limit was exceeded and the
\* retries exhausted and whose cause is the original failure; the result
\* carries that message as its single error, with success=false.
C12_ExhaustionIsDistinctError ==
    (hunt.provider = "gcp" /\ obs.failure = "exhausted") =>
        /\ obs.origin \in {"ResourceExhausted", "TooManyRequests"}
        /\ obs.raised.type = "RuntimeError"
        /\ obs.raised.type # obs.origin
        /\ obs.raised.text = GcpRetriesExhausted(obs.origin)
        /\ obs.raised.cause = obs.origin
        /\ Returned
        /\ obs.added = <<>> =>
             /\ hunt.result.success = FALSE
             /\ hunt.result.errors =
                    << <<"GCP Logging API failed: ", "RuntimeError",
                         obs.raised.text>> >>

\* A budget of two retries was used up: three rate-limited attempts.
C12_Witness ==
    /\ hunt.provider = "gcp"
    /\ obs.failure = "exhausted"
    /\ JustReturned
    /\ obs.throttles = 3
    /\ obs.raised.cause = "TooManyRequests"

\* The same hunt against a provider that serves the pages resps and never
\* fails: the hunt's loop run on them, one request per page.  When the pages
\* run out the iterator of the cloud logging client is exhausted.
RECURSIVE Unthrottled(_, _)
Unthrottled(h, resps) ==
    IF h.pc # "loop" THEN h
    ELSE IF ~Continues(h) THEN Return(h)
    ELSE LET h1 == [h EXCEPT !.params = Params(h)]
         IN  IF resps # <<>>
             THEN Unthrottled(OnPage(h1, Head(resps)), Tail(resps))
             ELSE IF h.provider = "gcp"
             THEN OnPage(h1, [body |-> "stop", records |-> <<>>,
                              next_token |-> None, error |-> None])
             ELSE h1

\* C13: when every page call of a hunt succeeds within its retry budget, the
\* returned result (success, errors, events and their order, statistics) is
\* the result of the same hunt on the same pages without any throttling.
C13_ThrottlingInvisible ==
    (JustReturned /\ obs.failure = None) =>
        LET ref == Unthrottled(Start(hunt.provider, hunt.args), obs.pages)
        IN  /\ ref.pc = "done"
            /\ hunt.result = ref.result

\* The call for the second page was rate limited twice before it succeeded,
\* and the hunt returned events of both pages.
C13_Witness ==
    /\ JustReturned
    /\ obs.failure = None
    /\ Len(obs.pages) = 2
    /\ obs.throttles = 2
    /\ obs.slept > 0
    /\ Len(ResultEvents(hunt)) > obs.pages[1].n
    /\ obs.pages[1].n > 0

\* A filter was supplied: it is neither None nor the empty text.
Supplied(x) == x \notin {None, ""}

\* The lookup attributes a request carries (none when the key is absent).
RequestAttributes(params) ==
    IF "LookupAttributes" \in DOMAIN params THEN params["LookupAttributes"]
    ELSE <<>>

\* C14: every request of the cloud-infra hunt carries at most one lookup
\* attribute, chosen by the precedence access_key_id > user_name >
\* event_name among the supplied filters, the same in every page request.
C14_LookupAttributePrecedence ==
    (hunt.provider = "aws" /\ hunt.pc \in {"call", "sleep"}) =>
        LET f == hunt.args.filters
            attrs == RequestAttributes(hunt.params)
        IN  /\ Len(attrs) <= 1
            /\ Supplied(f.access_key_id) =>
                 attrs = <<[AttributeKey |-> "AccessKeyId",
                            AttributeValue |-> f.access_key_id]>>
            /\ (~Supplied(f.access_key_id) /\ Supplied(f.user_name)) =>
                 attrs = <<[AttributeKey |-> "Username",
                            AttributeValue |-> f.user_name]>>
            /\ (~Supplied(f.access_key_id) /\ ~Supplied(f.user_name)
                  /\ Supplied(f.event_name)) =>
                 attrs = <<[AttributeKey |-> "EventName",
                            AttributeValue |-> f.event_name]>>
            /\ (~Supplied(f.access_key_id) /\ ~Supplied(f.user_name)
                  /\ ~Supplied(f.event_name)) =>
                 attrs = <<>>

\* The request for the second page of a hunt given all three identity
\* filters carries the access key alone.
C14_Witness ==
    /\ hunt.provider = "aws"
    /\ hunt.pc = "call"
    /\ Len(obs.pages) = 1
    /\ Supplied(hunt.args.filters.access_key_id)
    /\ Supplied(hunt.args.filters.user_name)
    /\ Supplied(hunt.args.filters.event_name)
    /\ "NextToken" \in DOMAIN hunt.params
    /\ RequestAttributes(hunt.params)[1].AttributeKey = "AccessKeyId"

\* The client-side filters of a cloud-infra hunt as the contract states
\* them, on a normalized event.
C15Matches(n, f) ==
    /\ Supplied(f.source_ip) => n.source_ip_address = f.source_ip
    /\ (Supplied(f.event_name)
          /\ (Supplied(f.access_key_id) \/ Supplied(f.user_name)))
       => n.event_name = f.event_name

\* C15: client-side filtering of the cloud-infra hunt is exact: every event
\* of the result has the source IP asked for, and the event name asked for
\* when that was not the primary lookup attribute; and every fetched record
\* that matches and arrives before the cap is reached is in the result, in
\* fetch order.
C15_ClientSideFilterExact ==
    (hunt.provider = "aws" /\ Returned) =>
        LET f == hunt.args.filters
            events == ResultEvents(hunt)
            normalized == [i \in 1..Len(obs.fetched) |->
                              _normalize_event(obs.fetched[i])]
            matching == SelectSeq(normalized, LAMBDA n : C15Matches(n, f))
        IN  /\ \A i \in 1..Len(events) : C15Matches(events[i], f)
            /\ events = Take(matching, hunt.args.max_events)

\* A hunt by user, event name and source IP dropped a fetched record and kept
\* another, below the cap.
C15_Witness ==
    /\ hunt.provider = "aws"
    /\ Returned
    /\ Supplied(hunt.args.filters.source_ip)
    /\ Supplied(hunt.args.filters.event_name)
    /\ Supplied(hunt.args.filters.user_name)
    /\ Len(ResultEvents(hunt)) >= 1
    /\ Len(ResultEvents(hunt)) < hunt.args.max_events
    /\ Len(obs.fetched) > Len(ResultEvents(hunt))

\* The sourceIPAddress member of a nested payload text; None when the text
\* is no JSON object or the object has no such member.
PayloadSourceIp(text) ==
    CASE text = JsonWithIp1 -> "1.1.1.1"
      [] text = JsonWithIp2 -> "2.2.2.2"
      [] OTHER -> None

\* The raw record among raws a normalized cloud-infra event was made from.
RawOf(event, raws) ==
    CHOOSE i \in 1..Len(raws) : raws[i]["EventId"] = event.event_id

\* C16: the source IP of a normalized cloud-infra event is the top-level
\* SourceIPAddress of its raw record whenever the record has that field, and
\* otherwise the sourceIPAddress of the nested CloudTrailEvent payload (null
\* when the payload is absent or has no such member).
C16_TopLevelSourceIpFirst ==
    hunt.provider = "aws" =>
        \A i \in 1..Len(hunt.events) :
            LET e == hunt.events[i]
                raw == obs.fetched[RawOf(e, obs.fetched)]
            IN  /\ \E j \in 1..Len(obs.fetched) :
                     obs.fetched[j]["EventId"] = e.event_id
                /\ e.source_ip_address =
                     IF "SourceIPAddress" \in DOMAIN raw
                     THEN raw["SourceIPAddress"]
                     ELSE IF "CloudTrailEvent" \in DOMAIN raw
                     THEN PayloadSourceIp(raw["CloudTrailEvent"])
                     ELSE None

\* A record with a top-level address and a different nested one was
\* normalized, and so was one with a nested address only.
C16_Witness ==
    /\ hunt.provider = "aws"
    /\ \E i \in 1..Len(hunt.events) :
         /\ hunt.events[i].source_ip_address = "1.1.1.1"
         /\ hunt.events[i].raw_cloudtrail_event = JsonWithIp2
    /\ \E i \in 1..Len(hunt.events) :
         /\ hunt.events[i].source_ip_address = "1.1.1.1"
         /\ hunt.events[i].raw_cloudtrail_event = JsonWithIp1

\* C17: normalization never raises on a malformed optional sub-field: for
\* every raw record, one whose timestamp field has an unexpected shape
\* included, the normalizer produces the record with the derived field null
\* and the hunt continues with the next record, so every hunt that was
\* served such a record still returns a result.
C17_NormalizationNeverRaises ==
    /\ ~(hunt.pc = "raised" /\ hunt.escaped = "AttributeError")
    /\ (hunt.provider = "aws" /\ Returned /\ env.shapes \in EdgeShapes) =>
         Len(ResultEvents(hunt)) = Len(obs.fetched)

\* The fields a normalized cloud logging entry derives from the raw entry.
GcpDerivedFields ==
    {"timestamp", "log_name", "severity", "trace", "span_id", "insert_id",
     "resource", "labels", "payload"}

\* C18: every normalized event of a hunt carries the raw provider record
\* verbatim under a dedicated field: the whole record for the source-control
\* hunt, the provider's payload text for the cloud-infra hunt, and for the
\* cloud logging hunt a field beside the derived ones.
C18_RawRecordCarried ==
    \A i \in 1..Len(hunt.events) :
        LET e == hunt.events[i]
        IN  CASE hunt.provider = "github" ->
                   "raw" \in DOMAIN e /\ e["raw"] = obs.fetched[i]
              [] hunt.provider = "aws" ->
                   /\ "raw_cloudtrail_event" \in DOMAIN e
                   /\ e["raw_cloudtrail_event"] =
                        Get(obs.fetched[RawOf(e, obs.fetched)], "CloudTrailEvent")
              [] OTHER -> DOMAIN e \ GcpDerivedFields # {}

\* The page size the source-control hunt sent in its requests.
SentPerPage == hunt.params["per_page"]

\* Page j served to the hunt was short: fewer records than asked for.
ShortPage(j) == obs.pages[j].n < SentPerPage

\* C19: the source-control hunt makes no page request after a page that
\* returned fewer records than the page size sent: while the hunt is in its
\* loop or in a call every page served so far was full, and a short page is
\* the last page served.
C19_StopsAtShortPage ==
    hunt.provider = "github" =>
        /\ hunt.pc \in {"loop", "call", "sleep"} =>
             \A j \in 1..Len(obs.pages) : ~ShortPage(j)
        /\ \A j \in 1..Len(obs.pages) : ShortPage(j) => j = Len(obs.pages)

\* The first page was short, the provider holds more pages, the cap is not
\* reached, and the hunt has returned.
C19_Witness ==
    /\ hunt.provider = "github"
    /\ JustReturned
    /\ Len(obs.pages) = 1
    /\ obs.pages[1].n = 1
    /\ SentPerPage = 2
    /\ env.served < MaxPages
    /\ Len(ResultEvents(hunt)) = 1
    /\ hunt.args.max_events > 1

\* The records of pages 1..j of the pages served.
RECURSIVE PagesUpTo(_)
PagesUpTo(j) == IF j = 0 THEN <<>> ELSE PagesUpTo(j - 1) \o obs.pages[j].records

\* The first short or empty page served (the last page when none is).
FirstShortPage ==
    IF \E j \in 1..Len(obs.pages) : ShortPage(j) \/ obs.pages[j].n = 0
    THEN CHOOSE j \in 1..Len(obs.pages) :
             /\ ShortPage(j) \/ obs.pages[j].n = 0
             /\ \A k \in 1..(j - 1) : ~(ShortPage(k) \/ obs.pages[k].n = 0)
    ELSE Len(obs.pages)

\* C20: a source-control hunt over a paginated source with no failures
\* returns success=true and exactly the first min(max_events, T) records of
\* the pages up to and including the first short or empty page (T records),
\* normalized, in page order and in-page order.
C20_PagesInOrderUpToShortPage ==
    (hunt.provider = "github" /\ JustReturned /\ obs.failure = None
       /\ \A j \in 1..Len(obs.pages) : obs.pages[j].body = "list") =>
        LET source == PagesUpTo(FirstShortPage)
            count == Min(Max(hunt.args.max_events, 0), Len(source))
            events == ResultEvents(hunt)
        IN  /\ hunt.result.success
            /\ hunt.result.errors = <<>>
            /\ Len(events) = count
            /\ \A i \in 1..count :
                 events[i] = [action |-> source[i].action,
                              actor |-> source[i].actor,
                              actor_ip |-> source[i].actor_ip,
                              repository |-> source[i].repo,
                              org |-> source[i].org,
                              created_at |-> source[i].created_at,
                              raw |-> source[i]]
            /\ hunt.result.details["statistics"].total_events_returned = count

\* Pages of 2 and 1 records, per_page = 2 and a cap above 3: 3 events in
\* page order.
C20_Witness ==
    /\ hunt.provider = "github"
    /\ JustReturned
    /\ hunt.result.success
    /\ hunt.args.max_events > 3
    /\ SentPerPage = 2
    /\ Len(obs.pages) = 2
    /\ obs.pages[1].n = 2
    /\ obs.pages[2].n = 1
    /\ Len(ResultEvents(hunt)) = 3
    /\ ResultEvents(hunt)[1].raw = obs.pages[1].records[1]
    /\ ResultEvents(hunt)[2].raw = obs.pages[1].records[2]
    /\ ResultEvents(hunt)[3].raw = obs.pages[2].records[1]
    /\ hunt.result.details["statistics"].total_events_returned = 3

\* C21: at the end of a cloud-infra hunt statistics.api_calls equals the
\* number of invocations of the remote listing call made during the hunt,
\* retried attempts and the attempt that finally failed included.
C21_ApiCallsCountsEveryAttempt ==
    (hunt.provider = "aws" /\ Returned) =>
        hunt.result.details["statistics"].api_calls = obs.calls

\* The time restriction a page request carries: StartTime and EndTime of the
\* cloud-infra request, the created term of the source-control phrase, the
\* timestamp clause of the cloud logging filter.
RequestWindow(h) ==
    CASE h.provider = "aws" -> <<h.params.StartTime, h.params.EndTime>>
      [] h.provider = "github" ->
           IF "phrase" \in DOMAIN h.params
           THEN SelectSeq(h.params.phrase,
                          LAMBDA t : t[1] \in {"created:", "created:>=",
                                               "created:<="})
           ELSE <<>>
      [] OTHER ->
           SelectSeq(h.params.filter_,
                     LAMBDA t : t[1] \in {"timestamp >=", "timestamp <="})

\* The same restriction for the window [start, end], in the provider's
\* notation.
WindowOf(p, start, end) ==
    CASE p = "aws" -> <<start, end>>
      [] p = "github" ->
           _build_phrase(None, None, None, None, TRUE, start, TRUE, end)
      [] OTHER ->
           Tail(_build_filter(None, None, None, None, None, TRUE, start,
                              TRUE, end))

\* C22: in every provider's hunt a missing start is defaulted to now - 24h
\* and a missing end to now, so a call without time bounds queries the last
\* 24 hours.
C22_MissingBoundsDefaultToLast24Hours ==
    hunt.pc = "call" =>
        RequestWindow(hunt) =
            WindowOf(hunt.provider,
                     IF hunt.args.has_start THEN hunt.args.start_time
                     ELSE Clock0 - DaySeconds,
                     IF hunt.args.has_end THEN hunt.args.end_time
                     ELSE Clock0)

\* The phrase a source-control page request carries: its terms in order
\* (the empty phrase is not sent).
SentPhrase(params) ==
    IF "phrase" \in DOMAIN params THEN params["phrase"] ELSE <<>>

\* One term key:value for a supplied filter, none for an absent one.
PhraseTerm(key, value) == IF Supplied(value) THEN <<<<key, value>>>> ELSE <<>>

\* The calendar day (days since the epoch) of a time in seconds.
DayOf(t) == <<"date", t \div DaySeconds>>

\* The created term the claim describes for the time bounds of a call.
CreatedTerm(a) ==
    CASE a.has_start /\ a.has_end ->
           <<<<"created:", DayOf(a.start_time), "..", DayOf(a.end_time)>>>>
      [] a.has_start /\ ~a.has_end -> <<<<"created:>=", DayOf(a.start_time)>>>>
      [] ~a.has_start /\ a.has_end -> <<<<"created:<=", DayOf(a.end_time)>>>>
      [] OTHER -> <<>>

\* C23: every page request of the source-control hunt, retries included,
\* carries the phrase made of one term per supplied filter in the order
\* actor, action, repo, actor_ip, created, the created term holding calendar
\* days only (D..D for a range within one day, >= for a start alone, <= for
\* an end alone); and the hunt returns every record it fetched up to the cap,
\* whether or not the record matches the filters.
C23_PhraseTermsInOrder ==
    /\ (hunt.provider = "github" /\ hunt.pc \in {"call", "sleep"}) =>
         SentPhrase(hunt.params) =
             PhraseTerm("actor:", hunt.args.filters.actor)
             \o PhraseTerm("action:", hunt.args.filters.action)
             \o PhraseTerm("repo:", hunt.args.filters.repo)
             \o PhraseTerm("actor_ip:", hunt.args.filters.source_ip)
             \o CreatedTerm(hunt.args)
    /\ (hunt.provider = "github" /\ JustReturned) =>
         ResultEvents(hunt) =
             [i \in 1..Min(Len(obs.fetched), Max(hunt.args.max_events, 0)) |->
                 github_normalize_event(obs.fetched[i])]

\* C23 witness: the second page request of a source-control hunt with all
\* four filters and a range within one calendar day, none of the records
\* fetched so far matching the filters.
C23_Witness ==
    /\ hunt.provider = "github" /\ hunt.pc = "call" /\ Len(obs.pages) = 1
    /\ hunt.params["page"] = 2
    /\ Len(SentPhrase(hunt.params)) = 5
    /\ hunt.args.has_start /\ hunt.args.has_end
    /\ DayOf(hunt.args.start_time) = DayOf(hunt.args.end_time)
    /\ hunt.args.start_time # hunt.args.end_time
    /\ Len(hunt.events) = 1
    /\ hunt.events[1].actor # hunt.args.filters.actor

\* One clause field="value" for a supplied filter, none for an absent one.
EqualityClause(field, value) ==
    IF Supplied(value) THEN <<<<field, value>>>> ELSE <<>>

\* A full timestamp: the time in seconds, nothing dropped.
FullTimestamp(t) == <<"rfc3339", t>>

\* The timestamp clause the claim describes for the time bounds of a call.
TimestampClause(a) ==
    CASE a.has_start /\ a.has_end ->
           <<<<"timestamp >=", FullTimestamp(a.start_time),
               "AND timestamp <=", FullTimestamp(a.end_time)>>>>
      [] a.has_start /\ ~a.has_end ->
           <<<<"timestamp >=", FullTimestamp(a.start_time)>>>>
      [] ~a.has_start /\ a.has_end ->
           <<<<"timestamp <=", FullTimestamp(a.end_time)>>>>
      [] OTHER -> <<>>

\* C24: every page request of the cloud logging hunt, retries included,
\* carries the filter that starts with the log_id clause of the supplied log
\* id (the configured default when none is supplied), followed by one
\* equality clause per supplied filter in the order principal, method,
\* resource, caller IP, and by the timestamp clause with full timestamps when
\* a bound is supplied.
C24_FilterClausesInOrder ==
    (hunt.provider = "gcp" /\ hunt.pc \in {"call", "sleep"}) =>
        hunt.params["filter_"] =
            <<<<"log_id", IF Supplied(hunt.args.filters.log_id)
                          THEN hunt.args.filters.log_id
                          ELSE GcpConfigDefaultLogId>>>>
            \o EqualityClause("protoPayload.authenticationInfo.principalEmail=",
                              hunt.args.filters.principal_email)
            \o EqualityClause("protoPayload.methodName=",
                              hunt.args.filters.method_name)
            \o EqualityClause("protoPayload.resourceName=",
                              hunt.args.filters.resource_name)
            \o EqualityClause("protoPayload.requestMetadata.callerIp=",
                              hunt.args.filters.source_ip)
            \o TimestampClause(hunt.args)

\* C24 witness: the second page request of a cloud logging hunt without a
\* log id, with two filters and both time bounds on different days.
C24_Witness ==
    /\ hunt.provider = "gcp" /\ hunt.pc = "call" /\ Len(obs.pages) = 1
    /\ Truthy(hunt.params["page_token"])
    /\ ~Supplied(hunt.args.filters.log_id)
    /\ Len(hunt.params["filter_"]) = 4
    /\ hunt.args.has_start /\ hunt.args.has_end
    /\ DayOf(hunt.args.start_time) # DayOf(hunt.args.end_time)

\* The page size a request carries, and the largest the provider accepts.
SentPageSize(h) ==
    CASE h.provider = "aws" -> h.params["MaxResults"]
      [] h.provider = "github" -> h.params["per_page"]
      [] OTHER -> h.params["page_size"]

LargestPageSize(p) ==
    CASE p = "aws" -> AwsMaxResults
      [] p = "github" -> GitHubMaxPerPage
      [] OTHER -> GcpMaxPageSize

\* C25: whatever page size the caller supplies, the page size of every page
\* request lies in the provider's valid range: 1..50 for the cloud-infra
\* provider, 1..100 for the source-control provider, 1..1000 for the cloud
\* logging provider.
C25_PageSizeInProviderRange ==
    hunt.pc = "call" =>
        SentPageSize(hunt) \in 1..LargestPageSize(hunt.provider)

(***************************************************************************)
(* Two hunt invocations running concurrently (SpecConcurrent).             *)
(*   hunt = <<frame 1, frame 2>>: the locals of each invocation            *)
(*   env  = what the provider will answer each invocation (script), how    *)
(*          much of it was delivered (cur), and the service registries     *)
(*   obs  = the records each invocation fetched                            *)
(* A frame starts at pc = "acquire" in the cloud-infra hunt (line 98 reads *)
(* the registry's lazily created client), at pc = "loop" otherwise.        *)
(***************************************************************************)
Invocations == {1, 2}

Other(i) == 3 - i

\* What the provider answers a call with: a page with a cursor to the next
\* one, a rate-limit failure, a fatal failure.  When the script is used up
\* the provider answers with its last page (no cursor).
OutcomeKinds == {"more", "throttle", "fatal"}

Scripts == [1..MaxPages -> OutcomeKinds]

\* Both invocations ask for pages of one record.
ConcurrentArgs == Args(MaxEvents, 1, 1, 1, NoFilters)

\* The record on page k served to invocation i.
ConcurrentRecord(p, i, k) ==
    CASE p = "aws" -> AwsRecord(IdTable[k][i], "login_ip1")
      [] p = "github" -> GitHubRecord(IdTable[k][i])
      [] OTHER -> GcpRecord(IdTable[k][i])

ConcurrentFailure(p, kind) ==
    CASE p = "aws" ->
           [type |-> "ClientError",
            code |-> IF kind = "throttle" THEN "ThrottlingException"
                     ELSE "AccessDeniedException",
            status_code |-> 0, headers |-> EmptyDetails]
      [] p = "github" ->
           [type |-> "Response", code |-> "status",
            status_code |-> IF kind = "throttle" THEN 429 ELSE 500,
            headers |-> EmptyDetails]
      [] OTHER ->
           [type |-> IF kind = "throttle" THEN "ResourceExhausted"
                     ELSE "PermissionDenied",
            code |-> "grpc", status_code |-> 0, headers |-> EmptyDetails]

\* The answer to the call invocation i makes when cur.pos answers and
\* cur.served pages have been delivered to it.
OutcomeAt(p, i, script, cur) ==
    LET k == cur.served + 1
        kind == IF cur.pos < Len(script) THEN script[cur.pos + 1] ELSE "last"
    IN  CASE kind = "more" ->
               [kind |-> "page",
                resp |-> [body |-> "list",
                          records |-> <<ConcurrentRecord(p, i, k)>>,
                          next_token |-> IF p = "github" THEN None
                                         ELSE TokenTable[k]],
                failure |-> None]
          [] kind = "last" ->
               [kind |-> "page",
                resp |-> [body |-> "list",
                          records |-> IF p = "github" THEN <<>>
                                      ELSE <<ConcurrentRecord(p, i, k)>>,
                          next_token |-> None],
                failure |-> None]
          [] OTHER ->
               [kind |-> "failure", resp |-> None,
                failure |-> ConcurrentFailure(p, kind)]

\* One step of an invocation on its own frame h and its own cursor cur; out
\* is the provider's answer to the running call.
FrameStep(h, cur, out) ==
    CASE h.pc = "loop" ->
           [hunt |-> IF Continues(h)
                     THEN [h EXCEPT !.params = Params(h), !.attempt = 0,
                                    !.pc = "call"]
                     ELSE Return(h),
            cur |-> cur, fetched |-> <<>>]
      [] h.pc = "sleep" ->
           [hunt |-> [h EXCEPT !.attempt = @ + 1, !.pc = "call"],
            cur |-> cur, fetched |-> <<>>]
      [] h.pc = "call" /\ out.kind = "page" /\ h.provider = "gcp" ->
           [hunt |-> [ExitExecutor(h) EXCEPT !.pc = "fetch"],
            cur |-> cur, fetched |-> <<>>]
      [] h.pc = "fetch" \/ (h.pc = "call" /\ out.kind = "page"
                            /\ h.provider # "gcp") ->
           [hunt |-> OnPage(ExitExecutor(h), out.resp),
            cur |-> [pos |-> cur.pos + 1, served |-> cur.served + 1],
            fetched |-> out.resp.records]
      [] h.pc = "call" /\ out.kind = "failure" ->
           LET b == Backoff(h, out.failure, Clock0)
           IN  [hunt |-> IF b.action = "sleep"
                         THEN [h EXCEPT !.delay = b.delay, !.pc = "sleep"]
                         ELSE Except(ExitExecutor(h), b),
                cur |-> [cur EXCEPT !.pos = @ + 1], fetched |-> <<>>]
      [] OTHER -> [hunt |-> h, cur |-> cur, fetched |-> <<>>]

\* The invocation run alone against the same answers, to its end.
RECURSIVE RunAlone(_, _, _, _)
RunAlone(h, i, script, cur) ==
    IF h.pc \in {"done", "raised"} THEN h
    ELSE LET nxt == FrameStep(h, cur, OutcomeAt(h.provider, i, script, cur))
         IN  RunAlone(nxt.hunt, i, script, nxt.cur)

ConcurrentStart(p, a) ==
    [Start(p, a) EXCEPT !.pc = IF p = "aws" THEN "acquire" ELSE "loop"]

\* The registry invocation i reads its client from: one registry when both
\* invocations run on the same hunt object.
RegistryOf(i) == IF env.same_object THEN 1 ELSE i

\* Only the registry of the cloud-infra provider holds a cell that is written
\* after construction, so only there does sharing the hunt object matter.
ConcurrentInit ==
    /\ \E p \in Providers : \E s1, s2 \in Scripts :
         \E same \in (IF p = "aws" THEN BOOLEAN ELSE {TRUE}) :
           /\ hunt = <<ConcurrentStart(p, ConcurrentArgs),
                       ConcurrentStart(p, ConcurrentArgs)>>
           /\ env = [script |-> <<s1, s2>>,
                     cur |-> <<[pos |-> 0, served |-> 0],
                               [pos |-> 0, served |-> 0]>>,
                     same_object |-> same,
                     registry |-> <<None, None>>,
                     client |-> <<None, None>>]
    /\ obs = [fetched |-> <<<<>>, <<>>>>, overlap |-> FALSE]

\* Both invocations are under way.
BothRunning(hs) ==
    \A i \in Invocations : hs[i].pc \in {"call", "sleep", "fetch"}

StepFrames_shared_events(hs, i, h2) ==
    [j \in Invocations |->
        IF j = i THEN h2 ELSE [hs[j] EXCEPT !.events = h2.events]]

\* A step of invocation i writes its own locals and nothing of the other's.
StepFrames(hs, i, h2) == [hs EXCEPT ![i] = h2]

\* AwsServiceRegistry.cloudtrail, the test: the cached client is returned, or
\* one has to be created.
AcquireClient(i) ==
    /\ hunt[i].pc = "acquire"
    /\ IF env.registry[RegistryOf(i)] = None
       THEN /\ hunt' = StepFrames(hunt, i, [hunt[i] EXCEPT !.pc = "create"])
            /\ UNCHANGED env
       ELSE /\ hunt' = StepFrames(hunt, i, [hunt[i] EXCEPT !.pc = "loop"])
            /\ env' = [env EXCEPT !.client[i] = env.registry[RegistryOf(i)]]
    /\ UNCHANGED obs

\* AwsServiceRegistry.cloudtrail, the assignment: a client is created and
\* cached, whatever the registry holds by now.
CreateClient(i) ==
    /\ hunt[i].pc = "create"
    /\ hunt' = StepFrames(hunt, i, [hunt[i] EXCEPT !.pc = "loop"])
    /\ env' = [env EXCEPT !.registry[RegistryOf(i)] = IF i = 1 THEN "client1"
                                                       ELSE "client2",
                          !.client[i] = IF i = 1 THEN "client1" ELSE "client2"]
    /\ UNCHANGED obs

\* Invocation i takes its next step: the head of the loop, a remote call
\* and what follows it, a sleep.
StepOf(i) ==
    /\ hunt[i].pc \in {"loop", "call", "fetch", "sleep"}
    /\ LET nxt == FrameStep(hunt[i], env.cur[i],
                            OutcomeAt(hunt[i].provider, i, env.script[i],
                                      env.cur[i]))
           hs == StepFrames(hunt, i, nxt.hunt)
       IN  /\ hunt' = hs
           /\ env' = [env EXCEPT !.cur[i] = nxt.cur]
           /\ obs' = [obs EXCEPT !.fetched[i] = @ \o nxt.fetched,
                                 !.overlap = @ \/ BothRunning(hs)]

ConcurrentNext ==
    \/ \E i \in Invocations : AcquireClient(i)
    \/ \E i \in Invocations : CreateClient(i)
    \/ \E i \in Invocations : StepOf(i)

SpecConcurrent == ConcurrentInit /\ [][ConcurrentNext]_vars

Normalized(p, r) ==
    CASE p = "aws" -> _normalize_event(r)
      [] p = "github" -> github_normalize_event(r)
      [] OTHER -> _normalize_entry(r)

MaxItems == 2

\* What IAM holds for the user: the lists it returns are prefixes of these.
IamNames(call) ==
    CASE call = "list_access_keys" -> <<"AKIA1", "AKIA2", "AKIA3">>
      [] call = "list_groups_for_user" -> <<"admins", "devs", "ops">>
      [] call = "list_attached_user_policies" ->
           <<"arn:policy/A", "arn:policy/B", "arn:policy/C">>
      [] OTHER -> <<"inline1", "inline2", "inline3">>

ListCalls ==
    {"list_access_keys", "list_groups_for_user", "list_attached_user_policies",
     "list_user_policies"}

\* The four list-then-act steps: the call made per item, the details key
\* written when the step completes, the error text of a failed item, the
\* call that follows the step.
DisableUserSteps ==
    [list_access_keys |->
        [item_call |-> "update_access_key", key |-> "access_keys_disabled",
         error |-> "Failed to disable key ", next |-> "list_groups_for_user"],
     list_groups_for_user |->
        [item_call |-> "remove_user_from_group", key |-> "groups_removed",
         error |-> "Failed to remove from group ",
         next |-> "delete_login_profile"],
     list_attached_user_policies |->
        [item_call |-> "detach_user_policy",
         key |-> "managed_policies_detached",
         error |-> "Failed to detach policy ", next |-> "list_user_policies"],
     list_user_policies |->
        [item_call |-> "delete_user_policy", key |-> "inline_policies_deleted",
         error |-> "Failed to delete inline policy ", next |-> "done"]]

ItemCalls == {DisableUserSteps[c].item_call : c \in ListCalls}

IamFailure == "AccessDenied"

\* Lines 89-93 of disable_user.
disable_user_start(user_name) ==
    [pc |-> "start", step |-> None, todo |-> <<>>, listed |-> <<>>,
     result |-> OperationResult("disable_user", <<"user=", user_name>>, TRUE)]

\* Lines 95-97.
disable_user_dry_run(f) ==
    [f EXCEPT !.pc = "done", !.result.details = SetItem(@, "dry_run", TRUE)]

\* The loop of a step is over: the details entry is written and the next
\* step begins (lines 114, 128, 152, 162).
disable_user_step_done(f) ==
    [f EXCEPT !.pc = DisableUserSteps[f.step].next,
              !.result.details = SetItem(@, DisableUserSteps[f.step].key,
                                         f.listed),
              !.step = None, !.todo = <<>>, !.listed = <<>>]

\* A list call returned items (lines 103-104, 117-118, 140-143, 155-156).
disable_user_listed(f, items) ==
    LET f1 == [f EXCEPT !.step = f.pc, !.todo = items, !.listed = items]
    IN  IF items = <<>> THEN disable_user_step_done(f1)
        ELSE [f1 EXCEPT !.pc = DisableUserSteps[f.pc].item_call]

\* The call for the first item left returned, or raised exc (None when it
\* returned): lines 105-112, 119-126, 144-150, 157-160.
disable_user_item(f, exc) ==
    LET f1 == [f EXCEPT
                 !.todo = Tail(@),
                 !.result = IF exc = None THEN @
                            ELSE add_error(@, <<DisableUserSteps[f.step].error,
                                                Head(f.todo), exc>>)]
    IN  IF f1.todo = <<>> THEN disable_user_step_done(f1) ELSE f1

\* Lines 131-137: delete_login_profile returned (None), raised
\* NoSuchEntityException, or raised something else.
disable_user_login_profile(f, exc) ==
    [f EXCEPT
       !.pc = "list_attached_user_policies",
       !.result =
           CASE exc = None ->
                  [@ EXCEPT !.details = SetItem(@, "login_profile_deleted",
                                                TRUE)]
             [] exc = "NoSuchEntityException" ->
                  [@ EXCEPT !.details = SetItem(@, "login_profile_deleted",
                                                FALSE)]
             [] OTHER ->
                  add_error(@, <<"Failed to delete login profile: ", "", exc>>)]

disable_user_fatal_starts_over(f, exc) ==
    [f EXCEPT !.pc = "done",
              !.result = add_error(
                  OperationResult(f.result.operation, f.result.target, TRUE),
                  <<"Fatal error disabling user: ", "", exc>>)]

\* Lines 164-165: a list call raised; the remaining steps are not run.
disable_user_fatal(f, exc) ==
    [f EXCEPT !.pc = "done",
              !.result = add_error(@, <<"Fatal error disabling user: ", "",
                                        exc>>)]

DisableUserInit ==
    /\ hunt = disable_user_start("alice")
    /\ \E d \in BOOLEAN : env = [dry_run |-> d, user_name |-> "alice"]
    /\ obs = [listed |-> EmptyDetails, failed |-> <<>>]

\* disable_user is entered: a dry run returns at once.
EnterDisableUser ==
    /\ hunt.pc = "start"
    /\ hunt' = IF env.dry_run THEN disable_user_dry_run(hunt)
               ELSE [hunt EXCEPT !.pc = "list_access_keys"]
    /\ UNCHANGED <<env, obs>>

\* A list call returns.
ListReturns ==
    /\ hunt.pc \in ListCalls
    /\ \E n \in 0..MaxItems :
         LET items == Take(IamNames(hunt.pc), n)
         IN  /\ hunt' = disable_user_listed(hunt, items)
             /\ obs' = [obs EXCEPT !.listed = SetItem(@, hunt.pc, items)]
    /\ UNCHANGED env

\* A list call raises.
ListFails ==
    /\ hunt.pc \in ListCalls
    /\ hunt' = disable_user_fatal(hunt, IamFailure)
    /\ obs' = [obs EXCEPT !.failed = Append(@, [call |-> hunt.pc,
                                                 item |-> ""])]
    /\ UNCHANGED env

\* The call for one item returns or raises.
ItemCall ==
    /\ hunt.pc \in ItemCalls
    /\ \E exc \in {None, IamFailure} :
         /\ hunt' = disable_user_item(hunt, exc)
         /\ obs' = IF exc = None THEN obs
                   ELSE [obs EXCEPT !.failed = Append(@, [call |-> hunt.pc,
                                                        item |-> Head(hunt.todo)])]
    /\ UNCHANGED env

\* delete_login_profile returns or raises.
DeleteLoginProfile ==
    /\ hunt.pc = "delete_login_profile"
    /\ \E exc \in {None, "NoSuchEntityException", IamFailure} :
         /\ hunt' = disable_user_login_profile(hunt, exc)
         /\ obs' = IF exc = IamFailure
                   THEN [obs EXCEPT !.failed = Append(@, [call |-> hunt.pc,
                                                          item |-> ""])]
                   ELSE [obs EXCEPT !.listed = SetItem(@, hunt.pc,
                                                        <<exc>>)]
    /\ UNCHANGED env

DisableUserNext ==
    \/ EnterDisableUser
    \/ ListReturns
    \/ ListFails
    \/ ItemCall
    \/ DeleteLoginProfile

SpecDisableUser == DisableUserInit /\ [][DisableUserNext]_vars

\* The list steps that completed: the list came back and every item call
\* was made.
CompletedSteps ==
    {c \in DOMAIN obs.listed \cap ListCalls : hunt.pc # c /\ hunt.step # c}

\* C27: in disable_user the details entry of every step that completed is
\* in the result from then on, with the list that step obtained, also after
\* a later item call or list call failed; the result holds one error message
\* per failed call, in order and naming the failed item, and is unsuccessful
\* exactly when a call failed.
C27_CompletedStepsKept ==
    ~env.dry_run =>
      /\ \A c \in CompletedSteps :
           /\ DisableUserSteps[c].key \in DOMAIN hunt.result.details
           /\ hunt.result.details[DisableUserSteps[c].key] = obs.listed[c]
      /\ "delete_login_profile" \in DOMAIN obs.listed =>
           /\ "login_profile_deleted" \in DOMAIN hunt.result.details
           /\ hunt.result.details["login_profile_deleted"] =
                  (obs.listed["delete_login_profile"] = <<None>>)
      /\ Len(hunt.result.errors) = Len(obs.failed)
      /\ \A n \in 1..Len(obs.failed) :
           /\ hunt.result.errors[n][2] = obs.failed[n].item
           /\ (obs.failed[n].call \in ListCalls) =
                  (hunt.result.errors[n][1] = "Fatal error disabling user: ")
      /\ hunt.result.success = (obs.failed = <<>>)

\* C27 witness: disable_user returned after the fatal failure of the fourth
\* step's list call; a key could not be disabled before; the entries of the
\* first three steps are in the result.
C27_Witness ==
    /\ hunt.pc = "done" /\ ~env.dry_run
    /\ Len(obs.failed) = 2
    /\ obs.failed[1].call = "update_access_key"
    /\ obs.failed[2].call = "list_attached_user_policies"
    /\ Len(hunt.result.details["access_keys_disabled"]) = MaxItems
    /\ Len(hunt.result.details["groups_removed"]) = 1
    /\ hunt.result.details["login_profile_deleted"] = TRUE
    /\ ~hunt.result.success

\* C28: while a remote listing call of a hunt is under way (the call itself,
\* a wait between its retries, the fetch of the page) the accumulator holds
\* fewer than max_events events; a hunt with max_events <= 0 makes no remote
\* call and returns a successful result without events.
C28_NoCallAtCap ==
    /\ hunt.pc \in {"call", "sleep", "fetch"} =>
         Len(hunt.events) < hunt.args.max_events
    /\ hunt.args.max_events <= 0 =>
         /\ obs.calls = 0
         /\ hunt.pc \in {"loop", "done"}
         /\ JustReturned =>
              /\ hunt.result.success
              /\ hunt.result.errors = <<>>
              /\ ResultEvents(hunt) = <<>>

\* C28 witness: a cloud-infra hunt returned with its accumulator at the cap
\* although the last page announced a further page; one call was made.
C28_Witness ==
    /\ hunt.provider = "aws" /\ JustReturned
    /\ hunt.args.max_events = MaxEvents
    /\ Len(hunt.events) = MaxEvents
    /\ Len(obs.pages) = 1 /\ obs.pages[1].more
    /\ obs.calls = 1

\* The cursor a page request carries: the NextToken of the cloud-infra
\* request (None when the key is absent), the page_token of the cloud logging
\* request, the page number of the source-control request.
SentCursor(h) ==
    CASE h.provider = "aws" -> Get(h.params, "NextToken")
      [] h.provider = "gcp" -> h.params["page_token"]
      [] OTHER -> h.params["page"]

\* C29: while a page request is under way, first attempt or retry, it
\* carries no cursor (page 1 for the source-control hunt) when no page has
\* been received yet, and otherwise exactly the cursor the last received page
\* returned (the number of pages received plus 1 for the source-control
\* hunt); so no page is skipped or asked for again.
C29_CursorThreading ==
    hunt.pc \in {"call", "sleep"} =>
        IF hunt.provider = "github"
        THEN SentCursor(hunt) = Len(obs.pages) + 1
        ELSE IF obs.pages = <<>>
        THEN /\ SentCursor(hunt) = None
             /\ "NextToken" \notin DOMAIN hunt.params
        ELSE /\ SentCursor(hunt) = obs.pages[Len(obs.pages)].next_token
             /\ SentCursor(hunt) # None

\* C29 witness: the retry of the request for the second page of a
\* cloud-infra hunt, carrying the token the first page returned.
C29_Witness ==
    /\ hunt.provider = "aws" /\ hunt.pc = "call"
    /\ obs.attempts = 2
    /\ Len(obs.pages) = 1
    /\ SentCursor(hunt) = TokenTable[1]

\* The loop of the hunt is over: the hunt returned or an exception left it.
LoopEnded == hunt.pc \in {"done", "raised"}

\* The three terminal conditions.  The cursor is exhausted when the last page
\* carried no next token or the iterator ran out (cloud-infra, cloud
\* logging), when the last page was short, empty or no list (source-control).
CapIsReached == Len(hunt.events) >= hunt.args.max_events

CursorExhausted ==
    \/ obs.stopped
    \/ /\ obs.pages # <<>>
       /\ LET last == obs.pages[Len(obs.pages)]
          IN  IF hunt.provider = "github"
              THEN last.body # "list" \/ last.n < hunt.params["per_page"]
              ELSE ~last.more

CallFailedFatally == obs.failure # None

\* C30: the pagination loop of a hunt ends only when the cap is reached, the
\* provider's cursor is exhausted or a call failed fatally; the cloud-infra
\* and cloud logging hunts make no request after a page without next token.
C30_LoopEndsOnlyWhenTerminal ==
    /\ LoopEnded => CapIsReached \/ CursorExhausted \/ CallFailedFatally
    /\ (hunt.provider \in {"aws", "gcp"} /\ hunt.pc \in {"call", "sleep", "fetch"}
        /\ obs.pages # <<>>) => obs.pages[Len(obs.pages)].more

\* The count the statistics of a result announce.
StatisticsCount(h) ==
    IF h.provider = "gcp"
    THEN h.result.details["statistics"].total_entries_returned
    ELSE h.result.details["statistics"].total_events_returned

\* C31: in every result a hunt returns, successful or not, the count in
\* the statistics (total_events_returned, total_entries_returned for the
\* cloud logging hunt) is the length of the events (entries) in details.
C31_StatisticsCountIsLength ==
    Returned => StatisticsCount(hunt) = Len(ResultEvents(hunt))

\* C31 witness: a cloud logging hunt returned a failed result that holds the
\* entries of the first page, fewer than the cap.
C31_Witness ==
    /\ hunt.provider = "gcp" /\ JustReturned
    /\ ~hunt.result.success
    /\ obs.failure # None
    /\ Len(ResultEvents(hunt)) = 1
    /\ hunt.args.max_events = MaxEvents

(***************************************************************************)
(* One hunt against a provider that never runs out of pages (SpecLive).    *)
(* The provider answers every call, with a page or a failure, and every    *)
(* sleep returns; no history is kept (obs stays as it starts), the page    *)
(* identifiers repeat after MaxPages pages, and the count of API calls,    *)
(* which decides nothing in the hunt, is followed up to MaxCounted.        *)
(***************************************************************************)
MaxCounted == 3

\* Hunts with the full cap: without filters, and with a source IP filter
\* that no record of the provider matches.
LiveArgs(p) ==
    {Args(MaxEvents, MaxPageLen, 1, 1, f) :
        f \in {NoFilters, [NoFilters EXCEPT !.source_ip = "2.2.2.2"]}}

LiveShapes(p) == IF p = "aws" THEN "logins" ELSE "usual"

Counted(h) ==
    IF "total_api_calls" \in DOMAIN h
    THEN [h EXCEPT !.total_api_calls = Min(@, MaxCounted)] ELSE h

LiveInit ==
    /\ \E p \in Providers : \E a \in LiveArgs(p) :
         /\ hunt = Start(p, a)
         /\ env = [served |-> 0, shapes |-> LiveShapes(p)]
    /\ obs = Obs0

\* The effect of one step of the hunt on hunt and env.
LiveEffect(out) ==
    LET nxt == FrameStep(hunt, [pos |-> 0, served |-> env.served], out)
    IN  /\ hunt' = Counted(nxt.hunt)
        /\ env' = [env EXCEPT !.served = nxt.cur.served % MaxPages]
        /\ UNCHANGED obs

\* The head of the loop: the next request, or the return at the cap.
LiveLoop ==
    /\ hunt.pc = "loop"
    /\ LiveEffect([kind |-> "none", resp |-> None, failure |-> None])

\* The remote call returns a page or fails.
LiveCall ==
    /\ hunt.pc = "call"
    /\ \/ \E r \in ServedResponses(hunt.provider, env.served + 1, env.shapes) :
            LiveEffect([kind |-> "page", resp |-> r, failure |-> None])
       \/ \E f \in Failures(hunt.provider) :
            LiveEffect([kind |-> "failure", resp |-> None, failure |-> f])

\* next(iterator.pages) returns a page, finds the iterator exhausted, or
\* fails.
LiveFetch ==
    /\ hunt.pc = "fetch"
    /\ \/ \E r \in ServedResponses("gcp", env.served + 1, env.shapes) :
            LiveEffect([kind |-> "page", resp |-> r, failure |-> None])
       \/ LiveEffect([kind |-> "page", failure |-> None,
                      resp |-> [body |-> "stop", records |-> <<>>,
                                next_token |-> None, error |-> None]])
       \/ \E e \in FetchFailures :
            LiveEffect([kind |-> "page", failure |-> None,
                        resp |-> [body |-> "error", records |-> <<>>,
                                  next_token |-> None, error |-> e]])

\* time.sleep(delay) returns.
LiveSleep ==
    /\ hunt.pc = "sleep"
    /\ LiveEffect([kind |-> "none", resp |-> None, failure |-> None])

LiveNext ==
    \/ LiveLoop
    \/ LiveCall
    \/ LiveFetch
    \/ LiveSleep

\* Every remote call and every sleep returns, and the hunt runs on.
SpecLive == LiveInit /\ [][LiveNext]_vars /\ WF_vars(LiveNext)

\* C32: a hunt with finite max_events and finite max_retries eventually
\* ends, whatever the provider answers, when every remote call and every
\* sleep returns (the claim asks for more: that it ends by returning a
\* result).
C32_HuntEventuallyEnds == <>(hunt.pc \in {"done", "raised"})

\* The first attempt of a page request is under way.
FirstAttempt == hunt.pc = "call" /\ obs.attempts = 1

\* The executor sleeps after the first attempt of a page request, and the
\* rate-limit headers of the response do not announce a reset time.
FirstSleep ==
    hunt.pc = "sleep" /\ obs.attempts = 1 /\ ~(ResetHeaderApplies([headers |-> obs.headers]))

\* C33 as stated: for every page request the attempt counter starts at 0
\* and the first delay is base_delay, and a hunt over P page requests makes
\* at most P * (max_retries + 1) call attempts.
C33_BudgetPerPage ==
    /\ FirstAttempt => hunt.attempt = 0
    /\ FirstSleep => hunt.delay = hunt.args.throttle_base_delay
    /\ obs.calls <= obs.requests * (hunt.args.throttle_max_retries + 1)

\* C33 amended: the same, the bound being P * (max(max_retries, 0) + 1):
\* every page request gets one attempt even when max_retries is negative;
\* and each page request alone makes at most max(max_retries, 0) + 1
\* attempts.
C33_BudgetPerPageNonNegative ==
    /\ FirstAttempt => hunt.attempt = 0
    /\ FirstSleep => hunt.delay = hunt.args.throttle_base_delay
    /\ obs.attempts <= Max(hunt.args.throttle_max_retries, 0) + 1
    /\ obs.calls <= obs.requests * (Max(hunt.args.throttle_max_retries, 0) + 1)

\* C33 witness: the request for the second page of a cloud-infra hunt
\* sleeps before its last allowed attempt, after the request for the first
\* page used all of its attempts; the sleep is the longest of the series.
C33_Witness ==
    /\ hunt.provider = "aws" /\ hunt.pc = "sleep"
    /\ hunt.args.throttle_max_retries = MaxRetries
    /\ obs.requests = 2 /\ Len(obs.pages) = 1
    /\ obs.attempts = MaxRetries
    /\ obs.calls = 2 * (MaxRetries + 1) - 1
    /\ hunt.delay = hunt.args.throttle_base_delay * (2 ^ (MaxRetries - 1))
    /\ hunt.delay > 0

\* The delay the executor computes for its k-th sleep (k from 0).
BackoffDelay(k) == hunt.args.throttle_base_delay * (2 ^ k)

\* The time the executor sleeps for its k-th sleep: the delay, or for the
\* source-control executor the wait its rate-limit headers lead to.
BackoffSleep(k) ==
    IF hunt.provider = "github"
    THEN GitHubWait(obs.headers, BackoffDelay(k), Clock0)
    ELSE BackoffDelay(k)

\* C34: in each executor run sleeps and attempts alternate.  While an
\* attempt is under way, while the executor sleeps and after it returned or
\* raised, the sleeps completed are one fewer than the attempts made: none
\* before the first attempt, one between two attempts, none after the last.
\* The k-th sleep is computed with exponent k, so that without a rate-limit
\* reset wait the time slept after n sleeps is base_delay * (2^n - 1).
C34_SleepsAndAttemptsAlternate ==
    /\ obs.exec # "idle" => obs.sleeps = obs.attempts - 1
    /\ hunt.pc = "sleep" => hunt.delay = BackoffSleep(obs.sleeps)
    /\ (obs.exec # "idle" /\ ~obs.reset_wait) =>
           obs.slept = hunt.args.throttle_base_delay * ((2 ^ obs.sleeps) - 1)

\* C34 witness: an executor raised after it exhausted MaxRetries retries with
\* a positive base delay: MaxRetries sleeps, MaxRetries + 1 attempts.
C34_Witness ==
    /\ obs.exec = "raised" /\ obs.failure = "exhausted"
    /\ hunt.args.throttle_max_retries = MaxRetries
    /\ hunt.args.throttle_base_delay > 0
    /\ obs.sleeps = MaxRetries /\ obs.attempts = MaxRetries + 1
    /\ obs.slept = hunt.args.throttle_base_delay * ((2 ^ MaxRetries) - 1)

\* C35: in every result of the source-control hunt statistics.pages_fetched
\* is the number of page requests that returned successfully during the hunt.
C35_PagesFetchedCountsSuccessfulRequests ==
    (hunt.provider = "github" /\ Returned) =>
        hunt.result.details["statistics"].pages_fetched = Len(obs.pages)

\* C36: a source-control hunt that returned success = true and no errors
\* consumed only pages whose body was a list of events.
C36_SuccessMeansWellFormedPages ==
    (hunt.provider = "github" /\ Returned /\ hunt.result.success
     /\ hunt.result.errors = <<>>) =>
        \A i \in 1..Len(obs.pages) : obs.pages[i].body = "list"

\* The items of step c whose item call raised.
FailedItems(c) ==
    {obs.failed[n].item : n \in {m \in 1..Len(obs.failed) : obs.failed[m].call = DisableUserSteps[c].item_call}}

\* C39: in the result of disable_user the details entry of each step
\* (access_keys_disabled, groups_removed, managed_policies_detached,
\* inline_policies_deleted) lists exactly the items of the step whose call
\* succeeded: no item whose call failed is in it.
C39_DetailsListOnlySucceededItems ==
    ~env.dry_run =>
        \A c \in CompletedSteps :
            DisableUserSteps[c].key \in DOMAIN hunt.result.details =>
                LET entry == hunt.result.details[DisableUserSteps[c].key]
                IN  /\ \A i \in 1..Len(entry) : entry[i] \notin FailedItems(c)
                    /\ Len(entry) = Len(obs.listed[c]) - Cardinality(FailedItems(c))

(***************************************************************************)
(* The remediation and forensics actions of AwsIRResponse and              *)
(* AwsIRForensics (SpecActions).                                           *)
(*   hunt = the frame of the action: the step of its plan about to be      *)
(*          made, the list being worked on, the result                     *)
(*   env  = the configuration (dry_run) and the action called              *)
(*   obs  = the remote calls made, the calls that failed, the result       *)
(*          disable_user returned to delete_user                           *)
(* A plan is the sequence of the remote calls an action makes.  A single   *)
(* call has its own try (guard "own"), stands in the try around the whole  *)
(* action ("outer") or has its failure ignored ("silent"); a list call     *)
(* returns the items the following per-item call is made for; a find call  *)
(* skips the creation that follows when it finds what it looks for.        *)
(***************************************************************************)
Single(call, guard, key, value, error, absent) == [role |-> "single", call |-> call, guard |-> guard, key |-> key, value |-> value, error |-> error, absent |-> absent]
Listing(call) == [role |-> "list", call |-> call]
Each(call, key, keeps, error) == [role |-> "each", call |-> call, key |-> key, keeps |-> keeps, error |-> error]
Find(call, key, value, skip) == [role |-> "find", call |-> call, key |-> key, value |-> value, skip |-> skip]
Returns == [role |-> "return", call |-> None]

\* response.py lines 99-162: the five steps of disable_user.
disable_user ==
    LET step(c) == <<Listing(c),
                     Each(DisableUserSteps[c].item_call, DisableUserSteps[c].key,
                          "all", DisableUserSteps[c].error)>>
    IN  step("list_access_keys") \o step("list_groups_for_user")
        \o <<Single("delete_login_profile", "own", "login_profile_deleted",
                    TRUE, "Failed to delete login profile: ",
                    "NoSuchEntityException")>>
        \o step("list_attached_user_policies") \o step("list_user_policies")

\* response.py lines 395-417: disable_user, its return, the deletion.
delete_user ==
    disable_user
    \o <<Returns,
         Single("delete_user", "own", "user_deleted", TRUE,
                "Failed to delete user alice: ", None)>>

Plans ==
    [disable_access_key |->
        <<Single("update_access_key", "own", "status", "Access key disabled",
                 "", None)>>,
     delete_access_key |->
        <<Single("delete_access_key", "own", "status", "Access key deleted",
                 "", None)>>,
     disable_user |-> disable_user,
     delete_user |-> delete_user,
     disable_role |->
        <<Listing("list_attached_role_policies"),
          Each("detach_role_policy", "managed_policies_detached", "all",
               "Failed to detach policy "),
          Listing("list_role_policies"),
          Each("delete_role_policy", "inline_policies_deleted", "all",
               "Failed to delete inline policy "),
          Single("update_assume_role_policy", "outer",
                 "trust_relationship_cleared", TRUE, "", None)>>,
     block_s3_public_access |->
        <<Single("put_public_access_block", "own", "status",
                 "S3 public access blocked at account level", "", None)>>,
     isolate_ec2_instances |->
        <<Single("describe_instances", "outer", None, None, "", None),
          Find("describe_security_groups", "isolation_security_group_id",
               "sg-found", 2),
          Single("create_security_group", "outer", None, None, "", None),
          Single("revoke_security_group_egress", "silent",
                 "isolation_security_group_id", "sg-created", "", None),
          Each("modify_instance_attribute", None, "none",
               "Failed to isolate ")>>,
     block_s3_bucket_public_access |->
        <<Single("put_public_access_block", "own", "public_access_blocked",
                 TRUE, "Failed to set bucket PublicAccessBlock: ", None),
          Single("put_bucket_acl", "own", "acl_set_private", TRUE,
                 "Failed to set bucket ACL to private: ", None),
          Single("delete_bucket_policy", "own", "bucket_policy_deleted", TRUE,
                 "Failed to delete bucket policy: ", "NoSuchBucketPolicy")>>,
     block_s3_object_public_access |->
        <<Single("put_object_acl", "own", "acl_set_private", TRUE,
                 "Failed to set object ACL to private: ", None)>>,
     get_ebs_snapshot |->
        <<Single("create_snapshot", "own", "snapshot_id", "snap-1", "",
                 None)>>,
     snapshot_instance_volumes |->
        <<Listing("describe_instances"),
          Each("create_snapshot", "snapshots", "succeeded",
               "Failed to snapshot volume ")>>,
     get_lambda_environment |->
        <<Single("get_function_configuration", "own",
                 "environment_variables", "variables",
                 "Failed to fetch lambda environment: ", None)>>]

\* target= of the OperationResult each action creates.
ActionTarget(op) ==
    CASE op \in {"disable_access_key", "delete_access_key"} ->
           <<"user=", "alice", ",access_key_id=", "AKIA1">>
      [] op \in {"disable_user", "delete_user"} -> <<"user=", "alice">>
      [] op = "disable_role" -> <<"role=", "role1">>
      [] op = "block_s3_public_access" -> <<"account=", "111122223333">>
      [] op = "isolate_ec2_instances" -> <<"i-1", ",", "i-2">>
      [] op = "block_s3_bucket_public_access" -> <<"bucket=", "bucket1">>
      [] op = "block_s3_object_public_access" ->
           <<"bucket=", "bucket1", ",key=", "key1">>
      [] op = "get_ebs_snapshot" -> <<"volume=", "vol-1">>
      [] op = "snapshot_instance_volumes" -> <<"instance=", "i-1">>
      [] OTHER -> <<"function=", "fn1", ",qualifier=", "LATEST">>

\* The message of the except clause around the whole action.
FatalText(op) ==
    CASE op \in {"disable_user", "delete_user"} ->
           "Fatal error disabling user: "
      [] op = "disable_role" -> "Fatal error disabling role role1: "
      [] op = "isolate_ec2_instances" -> "Fatal error isolating instances: "
      [] OTHER -> "Fatal error snapshotting instance volumes: "

\* What a call can raise: describe_instances stands for the call and the
\* check of its answer, which raises RuntimeError when it holds no instance.
Raises(st) ==
    {IamFailure}
    \cup (IF st.call = "describe_instances" THEN {"RuntimeError"} ELSE {})
    \cup (IF st.role = "single" /\ st.absent # None THEN {st.absent} ELSE {})

\* The items a list call can return (prefixes), and the instances
\* isolate_ec2_instances is called for.
ListedNames(call) ==
    CASE call = "list_attached_role_policies" ->
           <<"arn:policy/R", "arn:policy/S", "arn:policy/T">>
      [] call = "list_role_policies" -> <<"role-inline1", "role-inline2", "role-inline3">>
      [] call = "describe_instances" -> <<"vol-1", "vol-2", "vol-3">>
      [] call = "modify_instance_attribute" -> <<"i-1", "i-2", "i-3">>
      [] OTHER -> IamNames(call)

\* The OperationResult is created; delete_user begins with disable_user
\* (response.py lines 30-34, 89-93, 395).
action_start(op, instance_ids) ==
    LET ids == IF op = "isolate_ec2_instances" THEN instance_ids ELSE <<>>
    IN  [op |-> op, pc |-> "start", i |-> 0, todo |-> ids, listed |-> ids,
         succeeded |-> <<>>,
         result |-> OperationResult(
                        IF op = "delete_user" THEN "disable_user" ELSE op,
                        ActionTarget(op), TRUE)]

\* The loop over the items is over: the details entry written after it.
action_each_done(f) ==
    LET st == Plans[f.op][f.i]
    IN  [f EXCEPT !.result.details =
            CASE st.keeps = "all" -> SetItem(@, st.key, f.listed)
              [] st.keeps = "succeeded" -> SetItem(@, st.key, f.succeeded)
              [] OTHER -> @]

\* Control reaches step j of the plan: the action returns after the last
\* step, and a loop over no items makes no call.
RECURSIVE action_goto(_, _)
action_goto(f, j) ==
    IF j > Len(Plans[f.op]) THEN [f EXCEPT !.pc = "done", !.i = j]
    ELSE LET st == Plans[f.op][j]
         IN  IF st.role = "return" THEN [f EXCEPT !.pc = "return", !.i = j]
             ELSE IF st.role = "each" /\ f.todo = <<>>
             THEN action_goto(action_each_done([f EXCEPT !.i = j]), j + 1)
             ELSE [f EXCEPT !.pc = "call", !.i = j]

action_enter_lambda_checks_late(f, dry_run) ==
    IF dry_run /\ f.op # "get_lambda_environment"
    THEN LET f1 == [f EXCEPT !.result.details = SetItem(@, "dry_run", TRUE)]
         IN  IF f.op = "delete_user"
             THEN [f1 EXCEPT !.pc = "return", !.i = Len(disable_user) + 1]
             ELSE [f1 EXCEPT !.pc = "done"]
    ELSE action_goto(f, 1)

\* if self._config.dry_run: result.details["dry_run"] = True; return result
\* (response.py lines 36-38 and alike); in delete_user it is disable_user
\* that returns.
action_enter(f, dry_run) ==
    IF dry_run
    THEN LET f1 == [f EXCEPT !.result.details = SetItem(@, "dry_run", TRUE)]
         IN  IF f.op = "delete_user"
             THEN [f1 EXCEPT !.pc = "return", !.i = Len(disable_user) + 1]
             ELSE [f1 EXCEPT !.pc = "done"]
    ELSE action_goto(f, 1)

\* The call of the step returned: out is the list a list call returned,
\* "found" or "missing" for a find call.
action_returned(f, out) ==
    LET st == Plans[f.op][f.i]
        written == [f EXCEPT !.result.details =
                       IF st.key = None THEN @ ELSE SetItem(@, st.key, st.value)]
    IN  CASE st.role = "single" -> action_goto(written, f.i + 1)
          [] st.role = "list" ->
               action_goto([f EXCEPT !.todo = out, !.listed = out,
                                     !.succeeded = <<>>], f.i + 1)
          [] st.role = "find" ->
               IF out = "found" THEN action_goto(written, f.i + 1 + st.skip)
               ELSE action_goto(f, f.i + 1)
          [] OTHER ->
               action_goto([f EXCEPT !.todo = Tail(@),
                                     !.succeeded = Append(@, Head(f.todo))],
                           f.i)

\* The except clause around the whole action; disable_user then returns.
action_fatal(f, exc) ==
    action_goto([f EXCEPT !.result = add_error(@, <<FatalText(f.op), "", exc>>)],
                IF f.op = "delete_user" THEN Len(disable_user) + 1
                ELSE Len(Plans[f.op]) + 1)

\* The call of the step raised exc.
action_raised(f, exc) ==
    LET st == Plans[f.op][f.i]
    IN  CASE st.role = "single" ->
               IF exc = st.absent
               THEN action_goto([f EXCEPT !.result.details =
                                     SetItem(@, st.key, FALSE)], f.i + 1)
               ELSE IF st.guard = "own"
               THEN action_goto([f EXCEPT !.result =
                                     add_error(@, <<st.error, "", exc>>)],
                                f.i + 1)
               ELSE IF st.guard = "silent"
               THEN action_goto([f EXCEPT !.result.details =
                                     SetItem(@, st.key, st.value)], f.i + 1)
               ELSE action_fatal(f, exc)
          [] st.role = "each" ->
               action_goto([f EXCEPT !.todo = Tail(@),
                                     !.result = add_error(@,
                                         <<st.error, Head(f.todo), exc>>)],
                           f.i)
          [] OTHER -> action_fatal(f, exc)

delete_user_wrap_stops_on_errors(f, dry_run) ==
    LET disable_result == f.result
        result == [operation |-> "delete_user",
                   target |-> ActionTarget("delete_user"),
                   success |-> disable_result.success,
                   details |-> disable_result.details,
                   errors |-> disable_result.errors]
    IN  IF dry_run
        THEN [f EXCEPT !.pc = "done",
                       !.result = [result EXCEPT
                                     !.details = SetItem(@, "dry_run", TRUE)]]
        ELSE IF disable_result.errors # <<>>
        THEN [f EXCEPT !.pc = "done", !.result = result]
        ELSE action_goto([f EXCEPT !.result = result], f.i + 1)

\* response.py lines 397-407: delete_user takes over the result of
\* disable_user and returns in a dry run.
delete_user_wrap(f, dry_run) ==
    LET disable_result == f.result
        result == [operation |-> "delete_user",
                   target |-> ActionTarget("delete_user"),
                   success |-> disable_result.success,
                   details |-> disable_result.details,
                   errors |-> disable_result.errors]
    IN  IF dry_run
        THEN [f EXCEPT !.pc = "done",
                       !.result = [result EXCEPT
                                     !.details = SetItem(@, "dry_run", TRUE)]]
        ELSE action_goto([f EXCEPT !.result = result], f.i + 1)

ActionsInit ==
    /\ \E op \in DOMAIN Plans : \E d \in BOOLEAN : \E n \in 1..MaxItems :
         /\ hunt = action_start(op, Take(ListedNames("modify_instance_attribute"), n))
         /\ env = [dry_run |-> d, op |-> op]
    /\ obs = [calls |-> <<>>, failed |-> <<>>, returned |-> FALSE,
              disable_result |-> OperationResult("disable_user", ActionTarget("disable_user"), TRUE)]

\* The action is entered.
EnterAction ==
    /\ hunt.pc = "start"
    /\ hunt' = action_enter(hunt, env.dry_run)
    /\ UNCHANGED <<env, obs>>

\* The remote call of the step returns.
RemoteCallReturns ==
    /\ hunt.pc = "call"
    /\ LET st == Plans[hunt.op][hunt.i]
       IN  \/ /\ st.role \in {"single", "each"}
              /\ hunt' = action_returned(hunt, None)
           \/ /\ st.role = "list"
              /\ \E n \in 0..MaxItems :
                   hunt' = action_returned(hunt, Take(ListedNames(st.call), n))
           \/ /\ st.role = "find"
              /\ \E out \in {"found", "missing"} :
                   hunt' = action_returned(hunt, out)
    /\ obs' = [obs EXCEPT !.calls = Append(@, Plans[hunt.op][hunt.i].call)]
    /\ UNCHANGED env

\* The remote call of the step raises.
RemoteCallRaises ==
    /\ hunt.pc = "call"
    /\ LET st == Plans[hunt.op][hunt.i]
       IN  \E exc \in Raises(st) :
             /\ hunt' = action_raised(hunt, exc)
             /\ obs' = [obs EXCEPT
                          !.calls = Append(@, st.call),
                          !.failed = IF st.role = "single" /\ (exc = st.absent \/ st.guard = "silent")
                                     THEN @
                                     ELSE Append(@, [call |-> st.call,
                                                     item |-> IF st.role = "each" THEN Head(hunt.todo) ELSE ""])]
    /\ UNCHANGED env

\* disable_user returns to delete_user.
DisableUserReturns ==
    /\ hunt.pc = "return"
    /\ hunt' = delete_user_wrap(hunt, env.dry_run)
    /\ obs' = [obs EXCEPT !.returned = TRUE, !.disable_result = hunt.result]
    /\ UNCHANGED env

ActionsNext ==
    \/ EnterAction
    \/ RemoteCallReturns
    \/ RemoteCallRaises
    \/ DisableUserReturns

SpecActions == ActionsInit /\ [][ActionsNext]_vars

\* C37: with dry_run enabled an action makes no remote call, and the result
\* it returns is successful, holds dry_run = true as its only details entry
\* and holds no error.
C37_DryRunMakesNoCall ==
    env.dry_run =>
        /\ obs.calls = <<>>
        /\ hunt.pc \in {"start", "return", "done"}
        /\ hunt.pc = "done" =>
             /\ hunt.result.operation = env.op
             /\ hunt.result.success
             /\ hunt.result.errors = <<>>
             /\ DOMAIN hunt.result.details = {"dry_run"}
             /\ hunt.result.details["dry_run"] = TRUE

\* C37 witness: delete_user returned in a dry run, after disable_user
\* returned its own dry-run result to it.
C37_Witness ==
    /\ env.dry_run /\ env.op = "delete_user"
    /\ hunt.pc = "done" /\ obs.returned
    /\ hunt.result.operation = "delete_user"
    /\ obs.disable_result.operation = "disable_user"
    /\ obs.disable_result.details["dry_run"] = TRUE
    /\ hunt.result.details["dry_run"] = TRUE

\* The positions of the delete_user call among the remote calls made.
DeletionCalls == {n \in 1..Len(obs.calls) : obs.calls[n] = "delete_user"}

\* The delete_user call was made and raised.
DeletionFailed ==
    obs.failed # <<>> /\ obs.failed[Len(obs.failed)].call = "delete_user"

\* C38: delete_user, not in a dry run, makes the deletion call after
\* disable_user returned and after every call of disable_user, exactly once
\* by the time it returns, also when disable_user recorded errors.  From the
\* return of disable_user on its result holds the errors of disable_user
\* first and in order, and every details entry of disable_user; the
\* returned result holds one more error exactly when the deletion failed,
\* and is successful exactly when disable_user recorded no error and the
\* deletion did not fail.
C38_DeleteUserKeepsDisableUserResult ==
    (env.op = "delete_user" /\ ~env.dry_run) =>
        /\ DeletionCalls \subseteq {Len(obs.calls)}
        /\ DeletionCalls # {} => obs.returned /\ hunt.pc = "done"
        /\ hunt.pc = "done" => obs.returned /\ DeletionCalls # {}
        /\ obs.returned =>
             LET dr == obs.disable_result
                 n == Len(dr.errors)
             IN  /\ hunt.result.operation = "delete_user"
                 /\ Len(hunt.result.errors) >= n
                 /\ SubSeq(hunt.result.errors, 1, n) = dr.errors
                 /\ \A k \in DOMAIN dr.details :
                      /\ k \in DOMAIN hunt.result.details
                      /\ hunt.result.details[k] = dr.details[k]
                 /\ hunt.pc = "done" =>
                      /\ Len(hunt.result.errors) = n + (IF DeletionFailed THEN 1 ELSE 0)
                      /\ DeletionFailed =>
                           hunt.result.errors[n + 1][1] = "Failed to delete user alice: "
                      /\ ("user_deleted" \in DOMAIN hunt.result.details) = ~DeletionFailed
                      /\ hunt.result.success = (dr.errors = <<>> /\ ~DeletionFailed)

\* C38 witness: delete_user returned after disable_user had recorded a
\* failed key and a fatal error, and after the deletion failed as well: the
\* three errors are in the result in that order, with the details entry of
\* the first step.
C38_Witness ==
    /\ env.op = "delete_user" /\ ~env.dry_run
    /\ hunt.pc = "done"
    /\ Len(obs.disable_result.errors) = 2
    /\ Len(hunt.result.errors) = 3
    /\ hunt.result.errors[1][1] = "Failed to disable key "
    /\ hunt.result.errors[2][1] = "Fatal error disabling user: "
    /\ hunt.result.errors[3][1] = "Failed to delete user alice: "
    /\ "access_keys_disabled" \in DOMAIN hunt.result.details
    /\ obs.calls[Len(obs.calls)] = "delete_user"
    /\ ~hunt.result.success

====
